---------------------------- MODULE Spec2Model ----------------------------
(***************************************************************************)
(* A model of safarnama: the persistent crawl frontier (db.py), the        *)
(* layered policy engine and crawl loop (crawler.py) and the search        *)
(* backend selector (searcher.py).                                         *)
(*                                                                         *)
(* Strings are modelled as sequences of tokens: a URL such as              *)
(* "https://a.test/f.pdf" is <<"https:", "//", "a.test", "/", "f", ".pdf">>.*)
(* String operations of the code (lower, endswith, split, strip, urlparse, *)
(* urljoin, splitext, re.search of a literal pattern) are computed on the  *)
(* token sequences.                                                        *)
(***************************************************************************)
EXTENDS Integers, Sequences, FiniteSets, TLC

VARIABLES
    config,         \* the layered policy settings read by merge_settings
    rows,           \* the urls table: url -> row
    visited_urls,   \* crawl(): the local set visited_urls
    pc,             \* crawl(): position in the loop
    cur,            \* crawl(): (current_url, depth) of the iteration
    ctype,          \* crawl(): content_type, the media type of the iteration's response
    nlinks,         \* crawl(): how many anchors of the page have been handled
    href,           \* crawl(): the anchor handled last
    dbFaults,       \* number of storage errors met so far
    downloads,      \* the urls handed to download_file so far
    dequeued,       \* history: the urls get_next_url has returned so far
    consulted,      \* history: the urls self.rp.can_fetch was asked about
    gets,           \* history: the urls sent a page GET, the outcome of the last GET,
                    \* the Content-Type header of its response and whether
                    \* time.sleep ran since
    restarts,       \* how many times crawl() was interrupted and called again
    earlier,        \* history: the urls table as the interrupted run left it
    peer,           \* a second crawl() on the same store: its locals while the
                    \* other one runs, and how often the two took turns
    mUrl,           \* merge_settings run: the url last merged for
    mDepth,         \* merge_settings run: the depth last merged for
    scoped,         \* merge_settings run: the result of get_url_specific_settings
    effective,      \* merge_settings run: the result of merge_settings
    instances,      \* the instances table: url -> row
    now,            \* datetime.utcnow(), in seconds
    healthy,        \* the instances that answer every request with a JSON object
    orBuild,        \* what "False | <column expression>" does in get_available_instances
    sPc,            \* SearxNGSearcher: position in __init__ / search
    attempt,        \* search(): attempt
    listed,         \* SearxNGSearcher.instances
    idx,            \* search(): position of record in self.instances
    result,         \* search(): the value returned
    retries,        \* SearxNGSearcher.retries
    probed,         \* history: the records probed in the current pass, in order
    passes,         \* history: the passes search() has begun
    last,           \* history: the last request sent and its answer
    script,         \* the answers of the endpoint to the requests of the summarizer call
    llm             \* the summary and tags of the iteration, and the requests sent for them

restartVars == <<restarts, earlier>>
crawlVars == <<rows, visited_urls, pc, cur, ctype, nlinks, href, dbFaults,
               downloads, dequeued, consulted, gets, restartVars, peer>>
mergeVars == <<mUrl, mDepth, scoped, effective>>
searchVars == <<instances, now, healthy, orBuild, sPc, attempt, listed, idx, result,
                retries, probed, passes, last>>
llmVars == <<script, llm>>
vars == <<config, crawlVars, mergeVars, searchVars, llmVars>>

Null == "None"
\* None in a text column, told apart from the empty string <<>>
NullText == <<Null>>

----------------------------------------------------------------------------
(* Bounds of the model *)

\* storage errors injected in one run
MaxDbFaults == 1
\* anchors on one fetched page
MaxLinks == 1
\* entries of url_settings
MaxUrlSettings == 2
\* steps of the clock, of rate_limit_sleep seconds each
MaxTicks == 1
\* the retries a searcher is constructed with
MaxRetries == 1
\* interruptions of crawl(), each followed by a new call on the same store
MaxRestarts == 1
\* turns taken between two crawl() calls that run on the same store
MaxSwitches == 2

----------------------------------------------------------------------------
(* Strings as token sequences *)

StartsWith(s, pre) ==
    /\ Len(pre) <= Len(s)
    /\ SubSeq(s, 1, Len(pre)) = pre

EndsWith(s, suf) ==
    /\ Len(suf) <= Len(s)
    /\ SubSeq(s, Len(s) - Len(suf) + 1, Len(s)) = suf

\* re.search(pattern, s) for a literal pattern: pattern occurs in s
Contains(s, pat) ==
    \E i \in 1..(Len(s) + 1) :
        /\ i + Len(pat) - 1 <= Len(s)
        /\ SubSeq(s, i, i + Len(pat) - 1) = pat

LowerTok(t) ==
    CASE t = ".PDF" -> ".pdf"
      [] t = "F" -> "f"
      [] OTHER -> t

\* str.lower()
Lower(s) == [i \in 1..Len(s) |-> LowerTok(s[i])]

SchemeToks == {"https:", "http:", "mailto:"}
ExtToks == {".pdf", ".PDF", ".tar", ".gz", ".html"}
Delims == {"/", "?", "#"}
Blank == {" "}

HasScheme(u) == Len(u) >= 1 /\ u[1] \in SchemeToks
AfterScheme(u) == IF HasScheme(u) THEN Tail(u) ELSE u
HasNetloc(u) ==
    LET r == AfterScheme(u)
    IN  Len(r) >= 2 /\ r[1] = "//" /\ r[2] \notin Delims

\* urlparse(u).netloc
Netloc(u) == IF HasNetloc(u) THEN AfterScheme(u)[2] ELSE ""

\* what follows the netloc: path, then ?query / #fragment
AfterNetloc(u) ==
    LET r == AfterScheme(u)
    IN  IF HasNetloc(u) THEN SubSeq(r, 3, Len(r))
        ELSE IF Len(r) >= 1 /\ r[1] = "//" THEN Tail(r)
        ELSE r

RECURSIVE UpTo(_, _)
\* the prefix of s before the first token of stop
UpTo(s, stop) ==
    IF s = <<>> \/ s[1] \in stop THEN <<>>
    ELSE <<s[1]>> \o UpTo(Tail(s), stop)

\* urlparse(u).path
PathOf(u) == UpTo(AfterNetloc(u), {"?", "#"})

\* os.path.splitext(path)[1]: the last dot-part of the last component, unless
\* the component starts with it
SplitExt(path) ==
    IF /\ Len(path) >= 2
       /\ path[Len(path)] \in ExtToks
       /\ path[Len(path) - 1] # "/"
    THEN <<path[Len(path)]>>
    ELSE <<>>

RECURSIVE DirOf(_)
\* a path up to and including its last "/"
DirOf(path) ==
    IF path = <<>> THEN <<>>
    ELSE IF path[Len(path)] = "/" THEN path
    ELSE DirOf(SubSeq(path, 1, Len(path) - 1))

\* urllib.parse.urljoin(base, url)
urljoin(base, url) ==
    LET origin == <<base[1], "//", Netloc(base)>>
    IN  IF url = <<>> THEN base
        ELSE IF HasScheme(url) THEN url
        ELSE IF url[1] = "//" THEN <<base[1]>> \o url
        ELSE IF url[1] = "/" THEN origin \o url
        ELSE IF url[1] \in {"?", "#"} THEN origin \o PathOf(base) \o url
        ELSE origin \o DirOf(PathOf(base)) \o url

\* s.strip() is empty
IsBlank(s) == \A i \in 1..Len(s) : s[i] \in Blank

----------------------------------------------------------------------------
(* Configuration: SiteCrawler.__init__ *)

\* the seed of the runs
SiteUrl == <<"https:", "//", "a.test", "/">>
\* line 19
base_url == config.base_url
max_depth == 2
recursive_crawl == TRUE
\* line 28
respect_robots == config.respect_robots

\* a part of DEFAULT_CONFIG["binary_extensions"]
binary_extensions == << <<".pdf">>, <<".tar">>, <<".tar", ".gz">> >>

\* a part of DEFAULT_CONFIG["accepted_content_types"]
accepted_content_types == {"text/html", "application/xhtml+xml", "text/plain"}

SettingKeys == {"download_binaries", "download_specific_binaries", "find_images",
                "exclude_url_patterns", "exclude_content_patterns"}

EmptyDict == [k \in {} |-> TRUE]

\* the keys of the settings whose value is a list
ListKeys == {"download_specific_binaries", "exclude_url_patterns",
             "exclude_content_patterns"}

\* an update that extends the lists instead of replacing them
UpdateExtendingLists(eff, d) ==
    [k \in (DOMAIN eff) \cup (DOMAIN d) |->
        IF k \notin DOMAIN d THEN eff[k]
        ELSE IF k \in ListKeys /\ k \in DOMAIN eff THEN eff[k] \o d[k]
        ELSE d[k]]

\* dict.update(d)
Update(eff, d) ==
    [k \in (DOMAIN eff) \cup (DOMAIN d) |-> IF k \in DOMAIN d THEN d[k] ELSE eff[k]]

\* dict.get(k, {})
DictGet(d, k) == IF k \in DOMAIN d THEN d[k] ELSE EmptyDict

RECURSIVE FirstMatch(_, _)
\* the loop of get_url_specific_settings over url_settings.items()
FirstMatch(items, url) ==
    IF items = <<>> THEN EmptyDict
    ELSE IF Contains(url, items[1][1]) THEN items[1][2]
    ELSE FirstMatch(Tail(items), url)

\* get_url_specific_settings without the exact-key lookup
get_url_specific_settings_pattern_only(url) == FirstMatch(config.url_settings, url)

\* lines 75-81: the exact key first, then the patterns in declared order
get_url_specific_settings(url) ==
    LET us == config.url_settings
    IN  IF \E i \in 1..Len(us) : us[i][1] = url
        THEN us[CHOOSE i \in 1..Len(us) : us[i][1] = url][2]
        ELSE FirstMatch(us, url)

\* merge_settings applying the depth override after the url-scoped one
merge_settings_depth_last(url, depth) ==
    LET globals == [k \in SettingKeys |-> config[k]]
        withUrl == Update(globals, get_url_specific_settings(url))
    IN  Update(withUrl, DictGet(config.depth_settings, depth))

\* lines 83-93: globals, then the depth override, then the url-scoped one
merge_settings(url, depth) ==
    LET globals == [k \in SettingKeys |-> config[k]]
        withDepth == Update(globals, DictGet(config.depth_settings, depth))
    IN  Update(withDepth, get_url_specific_settings(url))

\* should_exclude_url asking for a match of every pattern
should_exclude_url_all(url, patterns) ==
    /\ patterns # <<>>
    /\ \A i \in 1..Len(patterns) : Contains(url, patterns[i])

\* lines 63-73: a match of any pattern
should_exclude_url(url, patterns) ==
    \E i \in 1..Len(patterns) : Contains(url, patterns[i])

is_binary_url(url) ==
    \E i \in 1..Len(binary_extensions) : EndsWith(Lower(url), binary_extensions[i])

\* add_url: the extension looked up in download_specific_binaries
BinaryExt(url) == Lower(SplitExt(PathOf(url)))

\* add_url: the condition under which a binary url is downloaded
WantsDownload(url, eff) ==
    \/ eff["download_binaries"]
    \/ /\ eff["download_specific_binaries"] # <<>>
       /\ \E i \in 1..Len(eff["download_specific_binaries"]) :
              eff["download_specific_binaries"][i] = BinaryExt(url)

\* SiteCrawler.is_allowed; the robots.txt read at construction disallows /p2
robots_disallow == << <<"/", "p2">> >>
can_fetch(url) ==
    ~ \E i \in 1..Len(robots_disallow) : StartsWith(PathOf(url), robots_disallow[i])

\* is_allowed asking the parser whatever respect_robots says
is_allowed_without_switch(url) == can_fetch(url)

\* lines 52-55
is_allowed(url) == IF ~respect_robots THEN TRUE ELSE can_fetch(url)

\* lines 53-55: the urls the parser was asked about once is_allowed(url) ran
Asked(url) == IF ~respect_robots THEN consulted ELSE consulted \cup {url}

----------------------------------------------------------------------------
(* The urls table: DBHandler *)

Terminal == {"visited", "ignored", "downloaded"}

\* a storage error is possible while the budget of injected errors lasts
FaultChoices == IF dbFaults < MaxDbFaults THEN BOOLEAN ELSE {FALSE}

\* insert_url written as an upsert
insert_url_upsert(r, url, depth, status, content_type, fault) ==
    IF fault THEN r
    ELSE (url :> [depth |-> depth, status |-> status,
                  content_type |-> content_type,
                  summary |-> NullText, tags |-> NullText]) @@ r

\* DBHandler.insert_url: a duplicate key raises IntegrityError, a storage
\* error raises another SQLAlchemyError; both are rolled back and logged
insert_url(r, url, depth, status, content_type, fault) ==
    IF fault \/ url \in DOMAIN r THEN r
    ELSE r @@ (url :> [depth |-> depth, status |-> status,
                       content_type |-> content_type,
                       summary |-> NullText, tags |-> NullText])

\* update_url_status whose write survives the storage error
update_url_status_no_rollback(r, url, status, content_type, fault) ==
    IF url \notin DOMAIN r THEN r
    ELSE [r EXCEPT ![url].status = status, ![url].content_type = content_type]

\* update_url_status writing the status and leaving content_type as it was
update_url_status_keeping_type(r, url, status, content_type, fault) ==
    IF fault \/ url \notin DOMAIN r THEN r
    ELSE [r EXCEPT ![url].status = status]

\* DBHandler.update_url_status
update_url_status(r, url, status, content_type, fault) ==
    IF fault \/ url \notin DOMAIN r THEN r
    ELSE [r EXCEPT ![url].status = status, ![url].content_type = content_type]

\* DBHandler.update_page_info
update_page_info(r, url, summary, tags, fault) ==
    IF fault \/ url \notin DOMAIN r THEN r
    ELSE [r EXCEPT ![url].summary = summary, ![url].tags = tags]

\* get_next_url without the status filter
get_next_url_any_status(r, maxDepth) ==
    LET cand == {u \in DOMAIN r : r[u].depth <= maxDepth}
    IN  {u \in cand : \A v \in cand : r[u].depth <= r[v].depth}

\* get_next_url without order_by(URL.depth)
get_next_url_unordered(r, maxDepth) ==
    {u \in DOMAIN r : r[u].status = "to_visit" /\ r[u].depth <= maxDepth}

\* get_next_url without the depth filter
get_next_url_any_depth(r, maxDepth) ==
    LET cand == {u \in DOMAIN r : r[u].status = "to_visit"}
    IN  {u \in cand : \A v \in cand : r[u].depth <= r[v].depth}

\* DBHandler.get_next_url: the rows .first() may return (the order among rows
\* of equal depth is the database's); the empty set stands for (None, None)
get_next_url(r, maxDepth) ==
    LET cand == {u \in DOMAIN r : r[u].status = "to_visit" /\ r[u].depth <= maxDepth}
    IN  {u \in cand : \A v \in cand : r[u].depth <= r[v].depth}

----------------------------------------------------------------------------
(* SiteCrawler.add_url *)

\* add_url without its exclusion and binary tests
add_url_unfiltered(url, depth, fault) ==
    [rows |-> insert_url(rows, url, depth, "to_visit", Null, fault),
     downloads |-> downloads, db |-> TRUE]

\* the rows and downloads after add_url(url, depth); db tells whether a
\* storage call was made
add_url(url, depth, fault) ==
    LET eff == merge_settings(url, depth)
    IN  IF should_exclude_url(url, eff["exclude_url_patterns"])
        THEN [rows |-> rows, downloads |-> downloads, db |-> FALSE]
        ELSE IF is_binary_url(url)
        THEN IF WantsDownload(url, eff)
             THEN [rows |-> update_url_status(rows, url, "downloaded", "binary", fault),
                   downloads |-> downloads \cup {url}, db |-> TRUE]
             ELSE [rows |-> update_url_status(rows, url, "ignored", "binary", fault),
                   downloads |-> downloads, db |-> TRUE]
        ELSE [rows |-> insert_url(rows, url, depth, "to_visit", Null, fault),
              downloads |-> downloads, db |-> TRUE]

Faults(fault, db) == IF fault /\ db THEN dbFaults + 1 ELSE dbFaults

----------------------------------------------------------------------------
(* The site and the summarizer: what the crawl's requests can return *)

\* the href attributes a page can carry
Hrefs ==
    { <<"/", "p1">>,                                 \* path-absolute
      <<"p2">>,                                      \* relative to the page
      <<"https:", "//", "a.test", "/">>,             \* the seed itself
      <<"https:", "//", "other.test", "/", "x">>,    \* another host
      <<"https:", "//", "sub.a.test", "/", "x">>,    \* a subdomain
      <<"https:", "//", "a.test:8080", "/", "x">>,   \* another port
      <<"/", "F", ".PDF">>,                          \* a binary extension
      <<"/", "g", ".pdf", "?", "v">>,                \* the same, with a query
      <<"/", "private", "/", "x">>,                  \* an excluded path
      <<"#", "top">>,                                \* a fragment
      <<" ">> }                                      \* blank

\* Content-Type headers; <<>> is a response without the header
Headers ==
    { <<"text/html", ";", " ", "charset=utf-8">>,
      <<"text/plain">>,
      <<"application/pdf", ";", " ", "q=1">>,
      <<>> }

\* str.strip()
RECURSIVE Strip(_)
Strip(s) ==
    IF s = <<>> THEN s
    ELSE IF s[1] \in Blank THEN Strip(Tail(s))
    ELSE IF s[Len(s)] \in Blank THEN Strip(SubSeq(s, 1, Len(s) - 1))
    ELSE s

\* the media type read from the end of the header
MediaTypeLastPart(header) == IF header = <<>> THEN "" ELSE header[Len(header)]

\* response.headers.get("Content-Type", "").split(";")[0].strip()
MediaType(header) ==
    LET t == Strip(UpTo(header, {";"}))
    IN  IF t = <<>> THEN "" ELSE t[1]

\* "html" in content_type.lower(), for the media types of the model
IsHtml(content_type) == content_type \in {"text/html", "application/xhtml+xml"}

\* the <img src> lists of a page
ImgLists == { <<>>, << <<"/", "i.png">> >> }

\* line 177: retries = 3
llm_retries == 3

\* the tags of a parsed result: a tag is a plain string, an object with a
\* name, a number, or an object whose name is null
GoodTags == << [kind |-> "str", text |-> <<"t", "/", "1">>],
               [kind |-> "dict", name |-> <<"n">>] >>
BadTags == << [kind |-> "str", text |-> <<"t">>], [kind |-> "int"] >>
BadNameTags == << [kind |-> "dict_name_null"] >>

\* what json.loads(content) can yield: nothing (the content is no JSON), a
\* list, or an object with or without the keys summary and tags
JsonDocs ==
    { [valid |-> FALSE],
      [valid |-> TRUE, isdict |-> FALSE],
      [valid |-> TRUE, isdict |-> TRUE, value |-> [summary |-> <<"S">>, tags |-> GoodTags]],
      [valid |-> TRUE, isdict |-> TRUE, value |-> [summary |-> <<"S">>]],
      [valid |-> TRUE, isdict |-> TRUE, value |-> [summary |-> <<"S">>, tags |-> BadTags]],
      [valid |-> TRUE, isdict |-> TRUE, value |-> [summary |-> <<"S">>, tags |-> BadNameTags]] }

\* the markdown fences of lines 195 and 197: three backquotes followed by
\* json, and three backquotes
FenceJson == "fence-json"
Fence == "fence"

\* choices[0]["message"]["content"]: a JSON text between an optional opening
\* and an optional closing fence
Contents ==
    { [open |-> o, json |-> j, close |-> c] :
        o \in {"", FenceJson, Fence}, j \in JsonDocs, c \in {"", Fence} }

\* the outcomes of one httpx.post to the endpoint: a timeout, any other
\* failure of the request (connection error, status >= 400, body that is no
\* JSON), a body with a top-level error, a body without choices, a body with
\* choices
LlmResponses ==
    { [kind |-> "timeout"], [kind |-> "fail"], [kind |-> "error"],
      [kind |-> "nochoices"] }
    \cup { [kind |-> "content", content |-> c] : c \in Contents }

\* the outcomes of the successive requests of one call
Scripts == [1..llm_retries -> LlmResponses]

\* return "", [] after sent requests
EmptyResult(sent) == [summary |-> <<>>, tags |-> <<>>, sent |-> sent]

\* lines 194-202: the fences are stripped, the content is parsed and summary
\* and tags are read from the result; a content that is no JSON, that keeps
\* a fence, or that is no object raises, and line 206 catches it
ParseContent(c, sent) ==
    IF (c.open # "" /\ c.open # FenceJson) \/ ~c.json.valid THEN EmptyResult(sent)
    ELSE IF ~c.json.isdict THEN EmptyResult(sent)
    ELSE [summary |-> IF "summary" \in DOMAIN c.json.value
                      THEN c.json.value.summary ELSE <<>>,
          tags |-> IF "tags" \in DOMAIN c.json.value
                   THEN c.json.value.tags ELSE <<>>,
          sent |-> sent]

RECURSIVE LlmLoopRetryAny(_, _)
\* the loop retrying after a failed request of any kind
LlmLoopRetryAny(responses, n) ==
    IF n > llm_retries THEN EmptyResult(llm_retries)
    ELSE IF responses[n].kind \in {"timeout", "fail"}
    THEN LlmLoopRetryAny(responses, n + 1)
    ELSE IF responses[n].kind = "content"
    THEN ParseContent(responses[n].content, n)
    ELSE EmptyResult(n)

RECURSIVE LlmLoopRetryOnError(_, _)
\* the loop retrying after a body with an error or without choices
LlmLoopRetryOnError(responses, n) ==
    IF n > llm_retries THEN EmptyResult(llm_retries)
    ELSE IF responses[n].kind \in {"timeout", "error", "nochoices"}
    THEN LlmLoopRetryOnError(responses, n + 1)
    ELSE IF responses[n].kind = "content"
    THEN ParseContent(responses[n].content, n)
    ELSE EmptyResult(n)

RECURSIVE LlmLoop(_, _)
\* lines 178-209: for attempt in range(retries); n is attempt + 1
LlmLoop(responses, n) ==
    IF n > llm_retries THEN EmptyResult(llm_retries)
    ELSE IF responses[n].kind = "timeout" THEN LlmLoop(responses, n + 1)
    ELSE IF responses[n].kind = "content"
    THEN ParseContent(responses[n].content, n)
    ELSE EmptyResult(n)

\* SiteCrawler.get_summary_and_tags: (summary, tags), and the number of
\* requests it has sent
get_summary_and_tags(responses) == LlmLoop(responses, 1)

\* a body whose content is the JSON text j, without fences
Plain(j) == [kind |-> "content",
             content |-> [open |-> "", json |-> j, close |-> ""]]

\* the response r, then failures
Pad(r) == [i \in 1..llm_retries |-> IF i = 1 THEN r ELSE [kind |-> "fail"]]

\* the answers of the endpoint during a crawl
CrawlScripts ==
    { Pad(Plain([valid |-> TRUE, isdict |-> TRUE,
                 value |-> [summary |-> <<"S">>, tags |-> GoodTags]])),
      Pad(Plain([valid |-> TRUE, isdict |-> TRUE,
                 value |-> [summary |-> <<"S">>, tags |-> BadTags]])),
      Pad([kind |-> "error"]),
      Pad([kind |-> "nochoices"]),
      Pad(Plain([valid |-> FALSE])),
      [i \in 1..llm_retries |-> [kind |-> "timeout"]] }

\* no call of get_summary_and_tags is under way
NoScript == <<>>
NoLlmCall == [summary |-> <<>>, tags |-> <<>>, sent |-> 0]
LlmIdle ==
    /\ script = NoScript
    /\ llm = NoLlmCall

\* line 266: the tag is a string, or a dict whose name is a string
TagIsText(tag) == tag.kind \in {"str", "dict"}

\* lines 265-270 raise AttributeError on a tag that has no replace()
TagsRaise(tags) == \E i \in 1..Len(tags) : ~TagIsText(tags[i])

RECURSIVE Remove(_, _)
\* str.replace(tok, "")
Remove(s, tok) ==
    IF s = <<>> THEN s
    ELSE IF s[1] = tok THEN Remove(Tail(s), tok)
    ELSE <<s[1]>> \o Remove(Tail(s), tok)

\* (tag.get("name", "") if isinstance(tag, dict) else tag).replace("/", "")
TagText(tag) == Remove(IF tag.kind = "dict" THEN tag.name ELSE tag.text, "/")

RECURSIVE JoinTags(_)
\* ", ".join(...)
JoinTags(tags) ==
    IF tags = <<>> THEN <<>>
    ELSE IF Len(tags) = 1 THEN TagText(tags[1])
    ELSE TagText(tags[1]) \o <<", ">> \o JoinTags(Tail(tags))

----------------------------------------------------------------------------
(* SiteCrawler.crawl *)

NoCur == [url |-> <<>>, depth |-> 0]
NoHref == <<>>

\* the settings of the crawl runs
CrawlConfig ==
    [base_url |-> SiteUrl,
     download_binaries |-> FALSE,
     download_specific_binaries |-> <<>>,
     find_images |-> FALSE,
     exclude_url_patterns |-> << <<"private">> >>,
     exclude_content_patterns |-> <<>>,
     respect_robots |-> TRUE,
     depth_settings |-> (2 :> [download_specific_binaries |-> << <<".pdf">> >>]),
     url_settings |-> << << <<"p1">>, [find_images |-> TRUE] >> >>]

\* no page GET has been sent
NoGets == [sent |-> {}, last |-> Null, header |-> <<>>, slept |-> FALSE]

\* line 243: client.get(url) raised or returned a response
Got(url, failed, header) ==
    [sent |-> gets.sent \cup {url},
     last |-> IF failed THEN "raised" ELSE "response",
     header |-> header,
     slept |-> FALSE]

\* search() returning None
NoResult == [url |-> <<>>, body |-> Null]

\* no request has been sent
NoRequest == [req |-> Null, answer |-> Null, record |-> <<>>]

\* no searcher has been constructed
SearchIdle ==
    /\ instances = [u \in {} |-> Null]
    /\ now = 0
    /\ healthy = {}
    /\ orBuild = "filters"
    /\ sPc = "new"
    /\ attempt = 0
    /\ listed = <<>>
    /\ idx = 0
    /\ result = NoResult
    /\ retries = 1
    /\ probed = <<>>
    /\ passes = 0
    /\ last = NoRequest

MergeIdle ==
    /\ mUrl = <<>>
    /\ mDepth = 0
    /\ scoped = EmptyDict
    /\ effective = EmptyDict

\* the locals of a crawl() call that has not executed a statement yet
FreshLocals ==
    [pc |-> "start", cur |-> NoCur, ctype |-> Null, nlinks |-> 0, href |-> NoHref,
     visited_urls |-> {}, dequeued |-> {}, consulted |-> {}, gets |-> NoGets,
     script |-> NoScript, llm |-> NoLlmCall]

\* the locals of the running crawl() call
Locals ==
    [pc |-> pc, cur |-> cur, ctype |-> ctype, nlinks |-> nlinks, href |-> href,
     visited_urls |-> visited_urls, dequeued |-> dequeued, consulted |-> consulted,
     gets |-> gets, script |-> script, llm |-> llm]

\* no second call has run
NoPeer == [locals |-> FreshLocals, switches |-> 0]

Init ==
    /\ config = CrawlConfig
    /\ rows = [u \in {} |-> Null]
    /\ visited_urls = {}
    /\ pc = "start"
    /\ cur = NoCur
    /\ ctype = Null
    /\ nlinks = 0
    /\ href = NoHref
    /\ dbFaults = 0
    /\ downloads = {}
    /\ dequeued = {}
    /\ consulted = {}
    /\ gets = NoGets
    /\ restarts = 0
    /\ earlier = [u \in {} |-> Null]
    /\ peer = NoPeer
    /\ MergeIdle
    /\ SearchIdle
    /\ LlmIdle

\* the iteration is over (continue, or the end of the loop body): its locals
\* are dead
NextIteration ==
    /\ cur' = NoCur
    /\ ctype' = Null
    /\ nlinks' = 0
    /\ href' = NoHref

\* line 222: self.add_url(self.base_url, 0)
Seed ==
    /\ pc = "start"
    /\ \E fault \in FaultChoices :
         LET r == add_url(base_url, 0, fault)
         IN  /\ rows' = r.rows
             /\ downloads' = r.downloads
             /\ dbFaults' = Faults(fault, r.db)
    /\ pc' = "dequeue"
    /\ UNCHANGED <<config, visited_urls, cur, ctype, nlinks, href, dequeued, consulted, gets, restartVars, peer, mergeVars, searchVars, llmVars>>

\* lines 226-228: get_next_url, break when it returns no url
Dequeue ==
    /\ pc = "dequeue"
    /\ \E fault \in FaultChoices :
         LET next == IF fault THEN {} ELSE get_next_url(rows, max_depth)
         IN  /\ dbFaults' = Faults(fault, TRUE)
             /\ IF next = {}
                THEN pc' = "done" /\ UNCHANGED <<cur, dequeued>>
                ELSE \E u \in next :
                        /\ cur' = [url |-> u, depth |-> rows[u].depth]
                        /\ dequeued' = dequeued \cup {u}
                        /\ pc' = "policy"
    /\ UNCHANGED <<config, rows, visited_urls, ctype, nlinks, href, downloads, consulted, gets, restartVars, peer, mergeVars, searchVars, llmVars>>

\* lines 229-241: exclusion, binary and robots checks of the dequeued url
Policy ==
    /\ pc = "policy"
    /\ LET eff == merge_settings(cur.url, cur.depth)
       IN  IF should_exclude_url(cur.url, eff["exclude_url_patterns"])
           THEN \E fault \in FaultChoices :
                   /\ rows' = update_url_status(rows, cur.url, "ignored", Null, fault)
                   /\ dbFaults' = Faults(fault, TRUE)
                   /\ pc' = "dequeue"
                   /\ NextIteration
                   /\ UNCHANGED consulted
           ELSE IF is_binary_url(cur.url)
           THEN /\ pc' = "dequeue"
                /\ NextIteration
                /\ UNCHANGED <<rows, dbFaults, consulted>>
           ELSE /\ consulted' = Asked(cur.url)
                /\ IF ~is_allowed(cur.url)
                   THEN \E fault \in FaultChoices :
                           /\ rows' = update_url_status(rows, cur.url, "ignored", Null, fault)
                           /\ dbFaults' = Faults(fault, TRUE)
                           /\ pc' = "dequeue"
                           /\ NextIteration
                   ELSE /\ pc' = "fetch"
                        /\ UNCHANGED <<rows, dbFaults, cur, ctype, nlinks, href>>
    /\ UNCHANGED <<config, visited_urls, downloads, dequeued, gets, restartVars, peer, mergeVars, searchVars, llmVars>>

\* lines 242-258: the page GET, the content-type check, marking visited
Fetch ==
    /\ pc = "fetch"
    /\ \E fault \in FaultChoices, failed \in BOOLEAN, header \in Headers :
         LET ct == MediaType(header)
         IN  /\ dbFaults' = Faults(fault, TRUE)
             /\ gets' = Got(cur.url, failed, header)
             /\ IF failed
                THEN /\ header = <<>>
                     /\ rows' = update_url_status(rows, cur.url, "ignored", Null, fault)
                     /\ pc' = "dequeue"
                     /\ NextIteration
                     /\ UNCHANGED visited_urls
                ELSE IF ct \notin accepted_content_types
                THEN /\ rows' = update_url_status(rows, cur.url, "ignored",
                                                  ct, fault)
                     /\ pc' = "dequeue"
                     /\ NextIteration
                     /\ UNCHANGED visited_urls
                ELSE /\ rows' = update_url_status(rows, cur.url, "visited",
                                                  ct, fault)
                     /\ visited_urls' = visited_urls \cup {cur.url}
                     /\ ctype' = ct
                     /\ pc' = IF IsHtml(ct) THEN "summarize" ELSE "sleep"
                     /\ UNCHANGED <<cur, nlinks, href>>
    /\ UNCHANGED <<config, downloads, dequeued, consulted, restartVars, peer, mergeVars, searchVars, llmVars>>

\* lines 259-282: summary and tags, image download, then the anchors found in
\* response.text
Summarize ==
    /\ pc = "summarize"
    /\ \E fault \in FaultChoices, responses \in CrawlScripts, imgs \in ImgLists :
         LET eff == merge_settings(cur.url, cur.depth)
             r == get_summary_and_tags(responses)
             img_urls == {urljoin(cur.url, imgs[i]) : i \in 1..Len(imgs)}
         IN  /\ script' = responses
             /\ llm' = r
             /\ IF TagsRaise(r.tags)
                THEN /\ ~fault
                     /\ pc' = "raised"
                     /\ UNCHANGED <<rows, dbFaults, downloads>>
                ELSE /\ rows' = update_page_info(rows, cur.url, r.summary,
                                                 JoinTags(r.tags), fault)
                     /\ dbFaults' = Faults(fault, TRUE)
                     /\ downloads' = IF eff["find_images"] /\ eff["download_binaries"]
                                     THEN downloads \cup img_urls
                                     ELSE downloads
                     /\ pc' = IF recursive_crawl THEN "links" ELSE "sleep"
    /\ UNCHANGED <<config, visited_urls, cur, ctype, nlinks, href, dequeued,
                   consulted, gets, restartVars, peer, mergeVars, searchVars>>

\* the scope test comparing the scheme instead of the netloc
SameScopeByScheme(absolute_url) ==
    HasScheme(absolute_url) /\ absolute_url[1] = base_url[1]

\* lines 288-291: the same-host scope of recursive discovery
SameScope(absolute_url) == Netloc(absolute_url) = Netloc(base_url)

\* children enqueued at the depth of their parent
next_depth_same(depth) == depth

\* line 292
next_depth(depth) == depth + 1

\* lines 283-293: the next anchor of the page (the page carries at most
\* MaxLinks anchors)
Link ==
    /\ pc = "links"
    /\ nlinks < MaxLinks
    /\ \E h \in Hrefs :
         LET absolute_url == urljoin(cur.url, h)
         IN  /\ href' = h
             /\ IF h[1] = "#" \/ IsBlank(h)
                THEN UNCHANGED <<rows, downloads, dbFaults>>
                ELSE IF SameScope(absolute_url)
                THEN \E fault \in FaultChoices :
                        LET r == add_url(absolute_url, next_depth(cur.depth), fault)
                        IN  /\ rows' = r.rows
                            /\ downloads' = r.downloads
                            /\ dbFaults' = Faults(fault, r.db)
                ELSE UNCHANGED <<rows, downloads, dbFaults>>
    /\ nlinks' = nlinks + 1
    /\ pc' = "links"
    /\ UNCHANGED <<config, visited_urls, cur, ctype, dequeued, consulted, gets, restartVars, peer, mergeVars, searchVars>>
    /\ script' = NoScript
    /\ llm' = NoLlmCall

\* the page has no further anchor
LinksDone ==
    /\ pc = "links"
    /\ pc' = "sleep"
    /\ UNCHANGED <<config, rows, visited_urls, cur, ctype, nlinks, href,
                   dbFaults, downloads, dequeued, consulted, gets, restartVars, peer, mergeVars, searchVars>>
    /\ script' = NoScript
    /\ llm' = NoLlmCall

\* line 294: time.sleep(self.delay)
Sleep ==
    /\ pc = "sleep"
    /\ pc' = "dequeue"
    /\ NextIteration
    /\ gets' = [gets EXCEPT !.slept = TRUE]
    /\ UNCHANGED <<config, rows, visited_urls, dbFaults, downloads, dequeued,
                   consulted, restartVars, peer, mergeVars, searchVars>>
    /\ script' = NoScript
    /\ llm' = NoLlmCall

Next ==
    \/ Seed
    \/ Dequeue
    \/ Policy
    \/ Fetch
    \/ Summarize
    \/ Link
    \/ LinksDone
    \/ Sleep

Spec == Init /\ [][Next]_vars

\* the settings of runs whose seed add_url may refuse: the seed matches an
\* exclude pattern, or ends in a binary extension (with and without download)
SeedConfigs ==
    { CrawlConfig,
      [CrawlConfig EXCEPT !.exclude_url_patterns = << <<"a.test">> >>],
      [CrawlConfig EXCEPT !.base_url = SiteUrl \o <<"F", ".PDF">>],
      [CrawlConfig EXCEPT !.base_url = SiteUrl \o <<"F", ".PDF">>,
                          !.download_binaries = TRUE] }

\* crawl() constructed with one of these settings on an empty table
InitSeed ==
    /\ config \in SeedConfigs
    /\ rows = [u \in {} |-> Null]
    /\ visited_urls = {}
    /\ pc = "start"
    /\ cur = NoCur
    /\ ctype = Null
    /\ nlinks = 0
    /\ href = NoHref
    /\ dbFaults = 0
    /\ downloads = {}
    /\ dequeued = {}
    /\ consulted = {}
    /\ gets = NoGets
    /\ restarts = 0
    /\ earlier = [u \in {} |-> Null]
    /\ peer = NoPeer
    /\ MergeIdle
    /\ SearchIdle
    /\ LlmIdle

SpecSeed == InitSeed /\ [][Next]_vars

\* crawl() is interrupted between two steps and called again on the same
\* store (lines 221-224): the table and the files on disk are kept, the
\* locals of the call are fresh
Restart ==
    /\ pc # "start"
    /\ restarts < MaxRestarts
    /\ restarts' = restarts + 1
    /\ earlier' = rows
    /\ pc' = "start"
    /\ visited_urls' = {}
    /\ dequeued' = {}
    /\ consulted' = {}
    /\ gets' = NoGets
    /\ NextIteration
    /\ script' = NoScript
    /\ llm' = NoLlmCall
    /\ UNCHANGED <<config, rows, dbFaults, downloads, peer, mergeVars, searchVars>>

\* the loop holds a url that get_next_url returned and is about to send its
\* GET (lines 242-243); no status has been written for the url yet
InHand == pc = "fetch"

\* two crawl() calls run on the same store (lines 221-295 twice): the one
\* that runs is suspended with a url in hand and the other one goes on where
\* it was; the table, the files and the storage errors are shared
Switch ==
    /\ InHand
    /\ peer.switches < MaxSwitches
    /\ peer' = [locals |-> Locals, switches |-> peer.switches + 1]
    /\ pc' = peer.locals.pc
    /\ cur' = peer.locals.cur
    /\ ctype' = peer.locals.ctype
    /\ nlinks' = peer.locals.nlinks
    /\ href' = peer.locals.href
    /\ visited_urls' = peer.locals.visited_urls
    /\ dequeued' = peer.locals.dequeued
    /\ consulted' = peer.locals.consulted
    /\ gets' = peer.locals.gets
    /\ script' = peer.locals.script
    /\ llm' = peer.locals.llm
    /\ UNCHANGED <<config, rows, dbFaults, downloads, restartVars, mergeVars, searchVars>>

NextPeers ==
    \/ Seed
    \/ Dequeue
    \/ Policy
    \/ Fetch
    \/ Summarize
    \/ Link
    \/ LinksDone
    \/ Sleep
    \/ Switch

SpecPeers == Init /\ [][NextPeers]_vars

\* a row as add_url stores it
NewRow(depth) ==
    [depth |-> depth, status |-> "to_visit", content_type |-> Null,
     summary |-> NullText, tags |-> NullText]

\* the urls of the anchors of the seed page
SeedChildren ==
    { urljoin(base_url, <<"/", "p1">>),
      urljoin(base_url, <<"p2">>),
      urljoin(base_url, <<"/", "private", "/", "x">>) }

\* the table as a run under settings without exclusions left it when it was
\* interrupted after the anchors of the seed page
PolicyStores ==
    { (base_url :> [depth |-> 0, status |-> "visited", content_type |-> "text/html",
                    summary |-> <<>>, tags |-> <<>>])
        @@ [u \in S |-> NewRow(1)] : S \in (SUBSET SeedChildren) \ {{}} }

\* the settings of the runs started on such a table: exclusion by the second
\* global pattern, with and without robots compliance, and exclusion by the
\* patterns that the override of depth 1 puts in the place of the global ones
PolicyConfigs ==
    { [CrawlConfig EXCEPT !.exclude_url_patterns = << <<"private">>, <<"p1">> >>],
      [CrawlConfig EXCEPT !.exclude_url_patterns = << <<"private">>, <<"p1">> >>,
                          !.respect_robots = FALSE],
      [CrawlConfig EXCEPT !.exclude_url_patterns = << <<"private">>, <<"p1">> >>,
                          !.respect_robots = FALSE,
                          !.depth_settings =
                              (1 :> [exclude_url_patterns |-> << <<"p2">>, <<"p1">> >>])
                                 @@ CrawlConfig.depth_settings] }

\* crawl() constructed with one of these settings on one of these tables
InitPolicy ==
    /\ config \in PolicyConfigs
    /\ rows \in PolicyStores
    /\ visited_urls = {}
    /\ pc = "start"
    /\ cur = NoCur
    /\ ctype = Null
    /\ nlinks = 0
    /\ href = NoHref
    /\ dbFaults = 0
    /\ downloads = {}
    /\ dequeued = {}
    /\ consulted = {}
    /\ gets = NoGets
    /\ restarts = 0
    /\ earlier = [u \in {} |-> Null]
    /\ peer = NoPeer
    /\ MergeIdle
    /\ SearchIdle
    /\ LlmIdle

NextPolicy ==
    \/ Seed
    \/ Dequeue
    \/ Policy
    \/ Fetch
    \/ Summarize
    \/ Link
    \/ LinksDone
    \/ Sleep

SpecPolicy == InitPolicy /\ [][NextPolicy]_vars

\* the urls of the anchors an earlier run stored: two pages, and a file whose
\* extension that run did not list in binary_extensions
ResumeChildren ==
    { urljoin(base_url, <<"/", "p1">>),
      urljoin(base_url, <<"/", "g", ".pdf", "?", "v">>),
      urljoin(base_url, <<"/", "F", ".PDF">>) }

\* the table as that run left it when it was interrupted after the anchors of
\* the seed page
ResumeStores ==
    { (base_url :> [depth |-> 0, status |-> "visited", content_type |-> "text/html",
                    summary |-> <<>>, tags |-> <<>>])
        @@ [u \in S |-> NewRow(1)] : S \in (SUBSET ResumeChildren) \ {{}} }

\* crawl() called on such a table
InitResume ==
    /\ config = CrawlConfig
    /\ rows \in ResumeStores
    /\ visited_urls = {}
    /\ pc = "start"
    /\ cur = NoCur
    /\ ctype = Null
    /\ nlinks = 0
    /\ href = NoHref
    /\ dbFaults = 0
    /\ downloads = {}
    /\ dequeued = {}
    /\ consulted = {}
    /\ gets = NoGets
    /\ restarts = 0
    /\ earlier = [u \in {} |-> Null]
    /\ peer = NoPeer
    /\ MergeIdle
    /\ SearchIdle
    /\ LlmIdle

\* crawl() is one sequential loop: the statement it stands at is executed
SpecResume == InitResume /\ [][NextPolicy]_vars /\ WF_vars(NextPolicy)

NextRestart ==
    \/ Seed
    \/ Dequeue
    \/ Policy
    \/ Fetch
    \/ Summarize
    \/ Link
    \/ LinksDone
    \/ Sleep
    \/ Restart

SpecRestart == Init /\ [][NextRestart]_vars

----------------------------------------------------------------------------
(* The policy engine on its own: merge_settings over bounded configurations *)

\* the urls merge_settings is called for
MergeUrls ==
    { <<"https:", "//", "a.test", "/", "docs", "/", "a">>,
      <<"https:", "//", "a.test", "/", "docs">>,
      <<"https:", "//", "a.test", "/", "blog">> }

MergeDepths == 0..max_depth

\* the keys of url_settings: an exact url, and two patterns
UrlKeys ==
    { <<"https:", "//", "a.test", "/", "docs", "/", "a">>,
      <<"docs">>,
      <<"a.test">> }

\* the values of url_settings and of depth_settings
Overrides ==
    { [find_images |-> TRUE],
      [find_images |-> FALSE, download_binaries |-> TRUE],
      [exclude_url_patterns |-> << <<"tmp">> >>] }

UrlEntries == { <<k, o>> : k \in UrlKeys, o \in Overrides }

\* url_settings is a dict: its keys are distinct and keep their declared order
UrlSettingsLists ==
    { us \in UNION { [1..n -> UrlEntries] : n \in 0..MaxUrlSettings } :
        \A i, j \in 1..Len(us) : i # j => us[i][1] # us[j][1] }

DepthSettingsDicts ==
    { EmptyDict,
      (1 :> [find_images |-> TRUE]),
      (1 :> [download_binaries |-> TRUE, find_images |-> FALSE])
          @@ (2 :> [find_images |-> FALSE]),
      (1 :> [exclude_url_patterns |-> << <<"old">>, <<"tmp">> >>]) }

MergeConfigs ==
    { [base_url |-> SiteUrl,
       download_binaries |-> db,
       download_specific_binaries |-> <<>>,
       find_images |-> fi,
       exclude_url_patterns |-> << <<"private">> >>,
       exclude_content_patterns |-> <<>>,
       respect_robots |-> TRUE,
       depth_settings |-> ds,
       url_settings |-> us] :
        db \in BOOLEAN, fi \in BOOLEAN,
        ds \in DepthSettingsDicts, us \in UrlSettingsLists }

InitMerge ==
    /\ config \in MergeConfigs
    /\ rows = [u \in {} |-> Null]
    /\ visited_urls = {}
    /\ pc = "start"
    /\ cur = NoCur
    /\ ctype = Null
    /\ nlinks = 0
    /\ href = NoHref
    /\ dbFaults = 0
    /\ downloads = {}
    /\ dequeued = {}
    /\ consulted = {}
    /\ gets = NoGets
    /\ restarts = 0
    /\ earlier = [u \in {} |-> Null]
    /\ peer = NoPeer
    /\ MergeIdle
    /\ SearchIdle
    /\ LlmIdle

\* one call of merge_settings(url, depth)
Merge ==
    /\ \E url \in MergeUrls, depth \in MergeDepths :
         /\ mUrl' = url
         /\ mDepth' = depth
         /\ scoped' = get_url_specific_settings(url)
         /\ effective' = merge_settings(url, depth)
    /\ UNCHANGED <<config, crawlVars, searchVars, llmVars>>

NextMerge == Merge

SpecMerge == InitMerge /\ [][NextMerge]_vars

\* the urls add_url is called with: pages, files by their extension (upper
\* case, multi-part), an extension at the end of the query, an extension
\* before the query, an excluded path
AddUrls ==
    { urljoin(base_url, <<"/", "p1">>),
      urljoin(base_url, <<"/", "F", ".PDF">>),
      urljoin(base_url, <<"/", "a", ".tar", ".gz">>),
      urljoin(base_url, <<"/", "x", "?", "f", ".pdf">>),
      urljoin(base_url, <<"/", "g", ".pdf", "?", "v">>),
      urljoin(base_url, <<"/", "private", "/", "F", ".PDF">>) }

AddDepths == 1..2

\* the allow-lists of the runs
AllowLists ==
    { <<>>,
      << <<".pdf">> >>,
      << <<".tar", ".gz">> >>,
      << <<".gz">>, <<".tar">> >> }

AddUrlConfigs ==
    { [CrawlConfig EXCEPT !.download_specific_binaries = l, !.download_binaries = b] :
        l \in AllowLists, b \in BOOLEAN }

InitAddUrl ==
    /\ config \in AddUrlConfigs
    /\ rows = [u \in {} |-> Null]
    /\ visited_urls = {}
    /\ pc = "start"
    /\ cur = NoCur
    /\ ctype = Null
    /\ nlinks = 0
    /\ href = NoHref
    /\ dbFaults = 0
    /\ downloads = {}
    /\ dequeued = {}
    /\ consulted = {}
    /\ gets = NoGets
    /\ restarts = 0
    /\ earlier = [u \in {} |-> Null]
    /\ peer = NoPeer
    /\ MergeIdle
    /\ SearchIdle
    /\ LlmIdle

\* lines 109-131: one call of add_url(url, depth)
AddUrl ==
    /\ \E url \in AddUrls, depth \in AddDepths, fault \in FaultChoices :
         LET r == add_url(url, depth, fault)
         IN  /\ mUrl' = url
             /\ mDepth' = depth
             /\ scoped' = get_url_specific_settings(url)
             /\ effective' = merge_settings(url, depth)
             /\ rows' = r.rows
             /\ downloads' = r.downloads
             /\ dbFaults' = Faults(fault, r.db)
    /\ UNCHANGED <<config, visited_urls, pc, cur, ctype, nlinks, href, dequeued,
                   consulted, gets, restartVars, peer, searchVars, llmVars>>

NextAddUrl == AddUrl

SpecAddUrl == InitAddUrl /\ [][NextAddUrl]_vars

----------------------------------------------------------------------------
(* The summarizer call on its own: get_summary_and_tags over every script *)

InitLlm ==
    /\ config = CrawlConfig
    /\ rows = [u \in {} |-> Null]
    /\ visited_urls = {}
    /\ pc = "start"
    /\ cur = NoCur
    /\ ctype = Null
    /\ nlinks = 0
    /\ href = NoHref
    /\ dbFaults = 0
    /\ downloads = {}
    /\ dequeued = {}
    /\ consulted = {}
    /\ gets = NoGets
    /\ restarts = 0
    /\ earlier = [u \in {} |-> Null]
    /\ peer = NoPeer
    /\ MergeIdle
    /\ SearchIdle
    /\ script \in Scripts
    /\ llm = NoLlmCall

\* one call of get_summary_and_tags, the endpoint answering by script
LlmCall ==
    /\ llm = NoLlmCall
    /\ llm' = get_summary_and_tags(script)
    /\ UNCHANGED <<config, crawlVars, mergeVars, searchVars, script>>

NextLlm == LlmCall

SpecLlm == InitLlm /\ [][NextLlm]_vars

----------------------------------------------------------------------------
(* The instances table (db.py) and SearxNGSearcher (searcher.py) *)

\* the cooldown after HTTP 429, in seconds
rate_limit_sleep == 60
\* the cooldown after a failed health probe, in seconds
failure_sleep == 24 * 3600
\* Instance.priority as upsert_instance stores it
default_priority == 100
\* None in the numeric columns uptime and sleep_until
NoneNum == -1

RECURSIVE Rstrip(_)
\* url.rstrip("/")
Rstrip(url) ==
    IF url # <<>> /\ url[Len(url)] \in {"/", "//"}
    THEN Rstrip(SubSeq(url, 1, Len(url) - 1))
    ELSE url

\* the stored urls of the instances, one of them with a trailing slash, and
\* their uptime (uptimeYear, unknown for the third)
InstanceUptime ==
    (<<"https:", "//", "s1.test">> :> 90)
    @@ (<<"https:", "//", "s2.test", "/">> :> 80)
    @@ (<<"https:", "//", "s3.test">> :> NoneNum)

InstanceUrls == DOMAIN InstanceUptime

\* the priorities the table can hold when a search begins: the value
\* upsert_instance stores, or values computed before the uptimes were last
\* written (uptimes 70, 80 and 90 then)
StoredPriorities ==
    { [u \in InstanceUrls |-> default_priority],
      (<<"https:", "//", "s1.test">> :> 30)
        @@ (<<"https:", "//", "s2.test", "/">> :> 20)
        @@ (<<"https:", "//", "s3.test">> :> 10) }

\* DBHandler.update_sleep: no row has the url, or a storage error: no change
update_sleep(r, url, sleep_seconds, fault) ==
    IF fault \/ url \notin DOMAIN r THEN r
    ELSE [r EXCEPT ![url].sleep_until = now + sleep_seconds]

\* DBHandler.clear_sleep
clear_sleep(r, url, fault) ==
    IF fault \/ url \notin DOMAIN r THEN r
    ELSE [r EXCEPT ![url].sleep_until = NoneNum]

\* update_all_priorities storing the uptime as the priority
update_all_priorities_by_uptime(r, fault) ==
    IF fault THEN r
    ELSE [u \in DOMAIN r |->
            [r[u] EXCEPT !.priority =
                IF r[u].uptime = NoneNum THEN 0 ELSE r[u].uptime]]

\* DBHandler.update_all_priorities: 100 - (record.uptime or 0)
update_all_priorities(r, fault) ==
    IF fault THEN r
    ELSE [u \in DOMAIN r |->
            [r[u] EXCEPT !.priority =
                100 - (IF r[u].uptime = NoneNum THEN 0 ELSE r[u].uptime)]]

\* order_by(Instance.priority.asc()): the orders of the rows S consistent with
\* ascending priority; rows of equal priority come in any order
OrderByPriority(r, S) ==
    { l \in [1..Cardinality(S) -> S] :
        /\ \A i, j \in 1..Cardinality(S) : i # j => l[i] # l[j]
        /\ \A i, j \in 1..Cardinality(S) :
              i < j => r[l[i]].priority <= r[l[j]].priority }

\* the rows that satisfy the filter of get_available_instances at time t
FilteredRows(r, t) ==
    {u \in DOMAIN r : /\ r[u].sleep_until # NoneNum
                      /\ r[u].sleep_until <= t}

\* DBHandler.get_available_instances, where it does not raise.
\* "Instance.sleep_until is None" is Python's identity test of the column
\* attribute, which is False; the filter that reaches the database is
\* sleep_until <= now, which no row with a NULL sleep_until satisfies
get_available_instances(r, fault) ==
    IF fault THEN { <<>> }
    ELSE OrderByPriority(r, FilteredRows(r, now))

\* perform_search setting the 60 second cooldown after any failed query
perform_search_sleep_any_failure(r, url, answer, fault) ==
    IF answer # "ok" THEN update_sleep(r, url, rate_limit_sleep, fault) ELSE r

\* perform_search, its write to the instances table: the 60 second cooldown
\* after HTTP 429 and nothing after another failure
perform_search_sleep(r, url, answer, fault) ==
    IF answer = "429" THEN update_sleep(r, url, rate_limit_sleep, fault) ELSE r

\* the answers an instance can give to a request
Answers(record) == IF record \in healthy THEN {"ok"} ELSE {"ok", "429", "fail"}

\* the places of one pass where a storage error can be met
PassFaultChoices ==
    IF dbFaults < MaxDbFaults THEN {"none", "refresh", "load"} ELSE {"none"}

\* the instances table is persistent: its rows carry any sleep_until
InitSearch ==
    /\ config = CrawlConfig
    /\ rows = [u \in {} |-> Null]
    /\ visited_urls = {}
    /\ pc = "start"
    /\ cur = NoCur
    /\ ctype = Null
    /\ nlinks = 0
    /\ href = NoHref
    /\ dbFaults = 0
    /\ downloads = {}
    /\ dequeued = {}
    /\ consulted = {}
    /\ gets = NoGets
    /\ restarts = 0
    /\ earlier = [u \in {} |-> Null]
    /\ peer = NoPeer
    /\ MergeIdle
    /\ LlmIdle
    /\ \E sl \in [InstanceUrls -> {NoneNum, 0, rate_limit_sleep}],
          pr \in StoredPriorities :
         instances = [u \in InstanceUrls |->
                        [uptime |-> InstanceUptime[u],
                         priority |-> pr[u],
                         sleep_until |-> sl[u]]]
    /\ now = 0
    /\ healthy \in SUBSET InstanceUrls
    /\ orBuild \in {"filters", "raises"}
    /\ sPc = "new"
    /\ attempt = 0
    /\ listed = <<>>
    /\ idx = 0
    /\ result = NoResult
    /\ retries \in 0..MaxRetries
    /\ probed = <<>>
    /\ passes = 0
    /\ last = NoRequest

searchFrame == <<config, rows, visited_urls, pc, cur, ctype, nlinks, href,
                 downloads, dequeued, consulted, gets, restartVars, peer, mergeVars, healthy, orBuild, retries, llmVars>>

\* lines 15-19: __init__ loads self.instances; the TypeError of the filter
\* expression is no SQLAlchemyError and leaves the constructor
Construct ==
    /\ sPc = "new"
    /\ IF orBuild = "raises"
       THEN /\ sPc' = "raised"
            /\ UNCHANGED <<listed, dbFaults>>
       ELSE \E fault \in FaultChoices :
               /\ listed' \in get_available_instances(instances, fault)
               /\ dbFaults' = Faults(fault, TRUE)
               /\ sPc' = "constructed"
    /\ UNCHANGED <<searchFrame, instances, now, attempt, idx, result, probed, passes, last>>

\* lines 28-29: search(query) is called
SearchCall ==
    /\ sPc = "constructed"
    /\ attempt' = 0
    /\ sPc' = "pass"
    /\ UNCHANGED <<searchFrame, instances, now, listed, idx, result, dbFaults,
                   probed, passes, last>>

\* the loop test letting one attempt more through
attempts_left_one_more(a) == a <= retries + 1

\* line 30: while attempt <= self.retries
attempts_left(a) == a <= retries

\* lines 30-31 and 47: the loop test, then update_instances
Pass ==
    /\ sPc = "pass"
    /\ IF attempts_left(attempt)
       THEN \E f \in PassFaultChoices :
               LET r == update_all_priorities(instances, f = "refresh")
               IN  /\ instances' = r
                   /\ listed' \in get_available_instances(r, f = "load")
                   /\ dbFaults' = Faults(f # "none", TRUE)
                   /\ idx' = 1
                   /\ probed' = <<>>
                   /\ passes' = passes + 1
                   /\ sPc' = "loop"
                   /\ UNCHANGED result
       ELSE /\ result' = NoResult
            /\ sPc' = "returned"
            /\ UNCHANGED <<instances, listed, dbFaults, idx, probed, passes>>
    /\ UNCHANGED <<searchFrame, now, attempt, last>>

\* lines 32-40: the health probe of the next record of self.instances
Probe ==
    /\ sPc = "loop"
    /\ idx <= Len(listed)
    /\ LET record == listed[idx]
           instance_url == Rstrip(record)
       IN  \E answer \in Answers(record), fault \in FaultChoices :
              /\ dbFaults' = Faults(fault, TRUE)
              /\ probed' = Append(probed, record)
              /\ last' = [req |-> "probe", answer |-> answer, record |-> record]
              /\ IF answer = "ok"
                 THEN /\ instances' = clear_sleep(instances, instance_url, fault)
                      /\ sPc' = "query"
                      /\ UNCHANGED idx
                 ELSE /\ instances' = update_sleep(instances, instance_url,
                                          IF answer = "429" THEN rate_limit_sleep
                                                            ELSE failure_sleep,
                                          fault)
                      /\ idx' = idx + 1
                      /\ UNCHANGED sPc
    /\ UNCHANGED <<searchFrame, now, attempt, listed, result, passes>>

\* lines 41-44: the real query of the instance that passed the probe
Query ==
    /\ sPc = "query"
    /\ LET record == listed[idx]
           instance_url == Rstrip(record)
       IN  \E answer \in Answers(record), fault \in FaultChoices :
              /\ last' = [req |-> "query", answer |-> answer, record |-> record]
              /\ IF answer = "ok"
                 THEN /\ result' = [url |-> instance_url, body |-> "json"]
                      /\ sPc' = "returned"
                      /\ UNCHANGED <<instances, dbFaults, idx>>
                 ELSE IF answer = "429"
                 THEN /\ instances' = perform_search_sleep(instances, instance_url,
                                                           answer, fault)
                      /\ dbFaults' = Faults(fault, TRUE)
                      /\ idx' = idx + 1
                      /\ sPc' = "loop"
                      /\ UNCHANGED result
                 ELSE /\ ~fault
                      /\ instances' = perform_search_sleep(instances, instance_url,
                                                           answer, fault)
                      /\ idx' = idx + 1
                      /\ sPc' = "loop"
                      /\ UNCHANGED <<dbFaults, result>>
    /\ UNCHANGED <<searchFrame, now, attempt, listed, probed, passes>>

\* lines 45-46: the pass is over without a result
PassEnd ==
    /\ sPc = "loop"
    /\ idx > Len(listed)
    /\ attempt' = attempt + 1
    /\ sPc' = "pass"
    /\ UNCHANGED <<searchFrame, instances, now, listed, idx, result, dbFaults,
                   probed, passes, last>>

\* time passes between two passes
Tick ==
    /\ sPc = "pass"
    /\ now < MaxTicks * rate_limit_sleep
    /\ now' = now + rate_limit_sleep
    /\ UNCHANGED <<searchFrame, instances, attempt, listed, idx, result, sPc,
                   dbFaults, probed, passes, last>>

NextSearch ==
    \/ Construct
    \/ SearchCall
    \/ Pass
    \/ Probe
    \/ Query
    \/ PassEnd
    \/ Tick

SpecSearch == InitSearch /\ [][NextSearch]_vars

----------------------------------------------------------------------------
(* Properties of the frontier and the crawl loop *)

\* the anchor handled by a Link step is one the loop skips (line 285)
Skipped(h) == h[1] = "#" \/ IsBlank(h)

\* a reference without scheme and host, resolved against the page
IsRelativeRef(h) == ~HasScheme(h) /\ h[1] # "//"

\* add_url's own policy lets (url, depth) through to insert_url
Insertable(url, depth) ==
    /\ ~should_exclude_url(url, merge_settings(url, depth)["exclude_url_patterns"])
    /\ ~is_binary_url(url)

\* this step is add_url for the seed or for an anchor
EnqueueStep == (pc = "start" /\ pc' = "dequeue") \/ (pc = "links" /\ pc' = "links")

\* the rows get_next_url may choose from
Eligible ==
    {u \in DOMAIN rows : rows[u].status = "to_visit" /\ rows[u].depth <= max_depth}

\* C1: an enqueue never changes a row that exists already: the row keeps the
\* depth and the status (and every other column) of its first insertion, and
\* stays the only row of its url.
C1_EnqueueKeepsExistingRow ==
    [][EnqueueStep =>
         \A u \in DOMAIN rows : u \in DOMAIN rows' /\ rows'[u] = rows[u]]_vars

\* C1 witness: an anchor resolving to a stored url was enqueued at another
\* depth than the stored one.
C1_Witness ==
    /\ pc = "links"
    /\ nlinks > 0
    /\ ~Skipped(href)
    /\ LET a == urljoin(cur.url, href)
       IN  /\ SameScope(a)
           /\ Insertable(a, cur.depth + 1)
           /\ a \in DOMAIN rows
           /\ rows[a].depth # cur.depth + 1

\* C2 (amended): a row's status changes only from to_visit to a terminal
\* status; a terminal row keeps its status, is never returned by get_next_url
\* again and is never sent a GET again.
C2_TerminalIsFinal ==
    [][/\ \A u \in DOMAIN rows :
            /\ u \in DOMAIN rows'
            /\ rows'[u].status # rows[u].status =>
                  rows[u].status = "to_visit" /\ rows'[u].status \in Terminal
       /\ \A u \in DOMAIN rows' \ DOMAIN rows : rows'[u].status = "to_visit"
       /\ (pc = "dequeue" /\ pc' = "policy") => rows[cur'.url].status = "to_visit"
       /\ pc = "fetch" => rows[cur.url].status = "to_visit"]_vars

\* C2 witness: a url is dequeued while another row is terminal already.
C2_Witness ==
    /\ pc = "policy"
    /\ \E u \in DOMAIN rows : u # cur.url /\ rows[u].status \in Terminal

\* C2 as stated: each url is processed at most once, that is, get_next_url
\* never returns a url it has returned before.
C2_ProcessedAtMostOnce ==
    [][(pc = "dequeue" /\ pc' = "policy") => cur'.url \notin dequeued]_vars

\* C3 (amended): get_next_url returns a to_visit row of depth <= max_depth
\* that is minimal among those rows; it returns none when there is no such
\* row, and otherwise only when the read met a storage error; it changes no
\* row.
C3_DequeueNext ==
    [][pc = "dequeue" =>
         /\ pc' = "policy" =>
               /\ cur'.url \in Eligible
               /\ cur'.depth = rows[cur'.url].depth
               /\ \A v \in Eligible : cur'.depth <= rows[v].depth
         /\ Eligible = {} => pc' = "done"
         /\ pc' = "done" => (Eligible = {} \/ dbFaults' = dbFaults + 1)
         /\ rows' = rows]_vars

\* C3 witness: a row was returned while a deeper row was eligible too.
C3_Witness ==
    /\ pc = "policy"
    /\ \E v \in Eligible : rows[v].depth > cur.depth

\* C3 as stated: none is returned exactly when no eligible row exists.
C3_NoneIffNoEligibleRow ==
    [][pc = "dequeue" => (pc' = "done" <=> Eligible = {})]_vars

\* C4: every frontier row has the seed's network location, whatever host,
\* subdomain or port the anchors name; an anchor without scheme and host is
\* resolved against the page and gets a row (unless add_url's own policy
\* drops it or the insert meets a storage error).
C4_SameHostScope ==
    [][/\ \A u \in DOMAIN rows' : Netloc(u) = Netloc(base_url)
       /\ (pc = "links" /\ pc' = "links") =>
             \A a \in {urljoin(cur.url, href')} :
                 (/\ IsRelativeRef(href')
                  /\ ~Skipped(href')
                  /\ Insertable(a, cur.depth + 1)
                  /\ dbFaults' = dbFaults)
                 => a \in DOMAIN rows']_vars

\* C4 witness: the page /p1, reached through a relative anchor, carried an
\* anchor to a subdomain of the seed host, which got no row.
C4_Witness ==
    /\ pc = "links"
    /\ cur.url = <<"https:", "//", "a.test", "/", "p1">>
    /\ href = <<"https:", "//", "sub.a.test", "/", "x">>
    /\ href \notin DOMAIN rows
    /\ cur.url \in DOMAIN rows

\* C5: the seed's row is created at depth 0, and a row created by link
\* discovery has the depth of the page being processed plus one.
C5_ChildDepth ==
    [][\A u \in DOMAIN rows' \ DOMAIN rows :
         IF pc = "start"
         THEN u = base_url /\ rows'[u].depth = 0
         ELSE /\ pc = "links"
              /\ cur.url \in DOMAIN rows
              /\ cur.depth = rows[cur.url].depth
              /\ rows'[u].depth = rows[cur.url].depth + 1]_vars

\* C5 witness: a row of depth 2 was created while a page of depth 1 was
\* processed.
C5_Witness ==
    /\ pc = "links"
    /\ cur.depth = 1
    /\ \E u \in DOMAIN rows : rows[u].depth = 2 /\ u = urljoin(cur.url, href)

\* the path of the url ends in a configured binary extension
PathEndsBinary(url) ==
    \E i \in 1..Len(binary_extensions) :
        EndsWith(Lower(PathOf(url)), binary_extensions[i])

\* C6: the crawl loop never issues its page GET for a url whose path ends in
\* a configured binary extension.
C6_NoGetForBinaryPath ==
    pc = "fetch" => ~PathEndsBinary(cur.url)

\* C7: once add_url has handled a binary url, the url has a row, with status
\* downloaded if binary download is enabled or its extension is in the
\* effective allow-list, and otherwise with status ignored and content type
\* "binary".
C7_BinaryRowTerminal ==
    [][(pc = "links" /\ pc' = "links") =>
         LET a == urljoin(cur.url, href')
             eff == merge_settings(a, cur.depth + 1)
         IN  (/\ ~Skipped(href')
              /\ SameScope(a)
              /\ is_binary_url(a)
              /\ ~should_exclude_url(a, eff["exclude_url_patterns"])
              /\ dbFaults' = dbFaults)
             => /\ a \in DOMAIN rows'
                /\ rows'[a].content_type = "binary"
                /\ rows'[a].status =
                      IF WantsDownload(a, eff) THEN "downloaded" ELSE "ignored"]_vars


----------------------------------------------------------------------------
(* The layering of merge_settings *)

Merged == mUrl # <<>>

\* C8: in the result of merge_settings every key takes the value of the
\* url-scoped override when that override defines the key, else the value of
\* the override of the current depth when that defines it, else the global
\* value
C8_MergeLayering ==
    Merged =>
        LET u == get_url_specific_settings(mUrl)
            d == DictGet(config.depth_settings, mDepth)
        IN  /\ SettingKeys \subseteq DOMAIN effective
            /\ \A k \in DOMAIN effective :
                 effective[k] = IF k \in DOMAIN u THEN u[k]
                                ELSE IF k \in DOMAIN d THEN d[k]
                                ELSE config[k]

\* a merge where the url-scoped and the depth override disagree on one key,
\* and the depth override alone changes another
C8_Witness ==
    /\ Merged
    /\ LET u == get_url_specific_settings(mUrl)
           d == DictGet(config.depth_settings, mDepth)
       IN  /\ \E k \in (DOMAIN u) \cap (DOMAIN d) :
                u[k] # d[k] /\ effective[k] = u[k]
           /\ \E k \in (DOMAIN d) \ (DOMAIN u) :
                d[k] # config[k] /\ effective[k] = d[k]

\* the entries of url_settings whose key is the url, and those whose key
\* matches the url as a pattern
ExactEntries(url) ==
    {i \in 1..Len(config.url_settings) : config.url_settings[i][1] = url}
MatchingEntries(url) ==
    {i \in 1..Len(config.url_settings) : Contains(url, config.url_settings[i][1])}

\* C9: the url-scoped override is the entry whose key equals the url when
\* there is one, even when an earlier pattern matches; otherwise the first
\* entry, in declared order, whose pattern matches the url; otherwise empty
C9_UrlScopedOverride ==
    Merged =>
        LET us == config.url_settings
            exact == ExactEntries(mUrl)
            matching == MatchingEntries(mUrl)
        IN  IF exact # {}
            THEN \A i \in exact : scoped = us[i][2]
            ELSE IF matching # {}
            THEN \E i \in matching :
                    /\ \A j \in matching : i <= j
                    /\ scoped = us[i][2]
            ELSE scoped = EmptyDict

\* the exact key is declared after a pattern that matches the url and carries
\* other settings
C9_Witness ==
    /\ Merged
    /\ \E j \in ExactEntries(mUrl) :
         \E i \in MatchingEntries(mUrl) :
            /\ i < j
            /\ config.url_settings[i][2] # config.url_settings[j][2]
            /\ scoped = config.url_settings[j][2]


----------------------------------------------------------------------------
(* The order in which search tries the instances *)

\* an instance is available when its sleep_until is unset or not later than now
Available(u) ==
    instances[u].sleep_until = NoneNum \/ instances[u].sleep_until <= now

\* the search ran from t = 0 to its end without a storage error, and every
\* instance is healthy and available
AllHealthyRunOver ==
    /\ sPc \in {"returned", "raised"}
    /\ healthy = InstanceUrls
    /\ dbFaults = 0
    /\ now = 0
    /\ \A u \in InstanceUrls : Available(u)

\* the records of a pass are in ascending order of priority
ListedAscending ==
    sPc \in {"loop", "query"} =>
        \A i, j \in 1..Len(listed) :
            i < j => instances[listed[i]].priority <= instances[listed[j]].priority

\* C10: search tries the available instances in ascending order of priority
\* and returns the first one whose probe and query both succeed; when every
\* instance is healthy it returns the one of the lowest priority value
C10_ReturnsMostPreferred ==
    /\ ListedAscending
    /\ (sPc = "returned" /\ result # NoResult) => result.url = Rstrip(listed[idx])
    /\ AllHealthyRunOver =>
          /\ sPc = "returned"
          /\ result # NoResult
          /\ \E u \in InstanceUrls :
                /\ \A v \in InstanceUrls : instances[u].priority <= instances[v].priority
                /\ result.url = Rstrip(u)


----------------------------------------------------------------------------
(* Cooldowns *)

\* the step is a health probe answered by a, with no storage error
ProbeStep(a) ==
    /\ Len(probed') = Len(probed) + 1
    /\ last'.answer = a
    /\ dbFaults' = dbFaults

\* the step is a real query answered by a, with no storage error
QueryStep(a) ==
    /\ sPc = "query"
    /\ sPc' # "query"
    /\ last'.answer = a
    /\ dbFaults' = dbFaults

\* C11: an instance that answers the health probe with HTTP 429 gets a
\* cooldown of 60 seconds and is not sent the real query; it is not listed
\* until the 60 seconds have elapsed and is listed from then on
C11_Probe429Cooldown ==
    [][ProbeStep("429") =>
          LET u == last'.record
          IN  /\ instances'[u].sleep_until = now + rate_limit_sleep
              /\ sPc' # "query"
              /\ u \notin FilteredRows(instances', now)
              /\ u \notin FilteredRows(instances', now + rate_limit_sleep - 1)
              /\ u \in FilteredRows(instances', now + rate_limit_sleep)]_vars


\* C12: an instance that passes the probe and answers the real query with
\* HTTP 429 gets a cooldown of 60 seconds, search goes on with the next
\* record of the same pass, and the instance is not listed by the next
\* immediate get_available_instances
C12_Query429Cooldown ==
    [][QueryStep("429") =>
          LET u == last'.record
          IN  /\ instances'[u].sleep_until = now + rate_limit_sleep
              /\ sPc' = "loop"
              /\ idx' = idx + 1
              /\ attempt' = attempt
              /\ u \notin FilteredRows(instances', now)]_vars


----------------------------------------------------------------------------
(* The listing of the available instances *)

\* the step calls get_available_instances and meets no storage error
ListingStep ==
    /\ \/ sPc = "new" /\ sPc' # "new"
       \/ sPc = "pass" /\ sPc' = "loop"
    /\ dbFaults' = dbFaults

\* C13: get_available_instances returns exactly the instances whose
\* sleep_until is unset or not later than now, in ascending order of priority
C13_ListAvailableExact ==
    [][ListingStep =>
          /\ sPc' # "raised"
          /\ {listed'[i] : i \in 1..Len(listed')} =
                {u \in DOMAIN instances' :
                    \/ instances'[u].sleep_until = NoneNum
                    \/ instances'[u].sleep_until <= now}
          /\ \A i, j \in 1..Len(listed') :
                i < j => instances'[listed'[i]].priority
                            <= instances'[listed'[j]].priority]_vars


----------------------------------------------------------------------------
(* The passes of search *)

\* the bounds on the passes, and the probes of the current pass
PassesBounded ==
    /\ passes <= retries + 1
    /\ (sPc = "returned" /\ retries = 0) => passes = 1
    /\ Len(probed) <= Len(listed)
    /\ \A i \in 1..Len(probed) : probed[i] = listed[i]
    /\ \A i, j \in 1..Len(probed) : i # j => probed[i] # probed[j]
    /\ (sPc = "returned" /\ result = NoResult) =>
          /\ passes = retries + 1
          /\ attempt = retries + 1
          /\ ~(last.req = "query" /\ last.answer = "ok")

\* a pass begins by refreshing the priorities and reloading the list
PassRefreshes ==
    (passes' = passes + 1 /\ dbFaults' = dbFaults) =>
        /\ \A u \in DOMAIN instances :
              /\ instances'[u].priority =
                    100 - (IF instances[u].uptime = NoneNum THEN 0
                           ELSE instances[u].uptime)
              /\ instances'[u].sleep_until = instances[u].sleep_until
        /\ listed' \in OrderByPriority(instances', FilteredRows(instances', now))
        /\ probed' = <<>>

\* C14: search makes at most retries + 1 passes, exactly one when retries is
\* 0; each pass refreshes the priorities and reloads the list and probes a
\* listed instance at most once; search returns no result only after
\* retries + 1 passes have ended without a success
C14_PassesOfSearch == []PassesBounded /\ [][PassRefreshes]_vars

\* a search with one retry has returned no result after two passes, the last
\* of which probed an instance
C14_Witness ==
    /\ sPc = "returned"
    /\ result = NoResult
    /\ retries = 1
    /\ passes = 2
    /\ probed # <<>>


\* C20: a successful probe clears the cooldown of the instance before the
\* real query is sent: when search returns an instance, without a storage
\* error, the sleep_until of that instance is unset
C20_SuccessClearsCooldown ==
    (sPc = "returned" /\ result # NoResult /\ dbFaults = 0) =>
        instances[last.record].sleep_until = NoneNum


----------------------------------------------------------------------------
(* The summarizer *)

\* C15: crawl() never ends by an exception, whatever the fetches, the store
\* and the summarizer answer
C15_CrawlNeverRaises == pc # "raised"

\* get_summary_and_tags has returned
Called == llm # NoLlmCall

\* the request failed otherwise than by a timeout, or its body is unusable
Failure(r) ==
    \/ r.kind \in {"fail", "error", "nochoices"}
    \/ /\ r.kind = "content"
       /\ \/ r.content.open = Fence
          \/ ~r.content.json.valid
          \/ ~r.content.json.isdict

\* the result is ("", [])
IsEmptyResult(r) == r.summary = <<>> /\ r.tags = <<>>

\* C16: one call sends at most 3 requests, each but the first after a timeout
\* of the one before; the first failure that is no timeout ends the call with
\* the empty result, and so do three timeouts in a row
C16_AtMostThreeRequests ==
    Called =>
        /\ llm.sent \in 1..3
        /\ \A i \in 1..(llm.sent - 1) : script[i].kind = "timeout"
        /\ \A i \in 1..Len(script) :
              (script[i].kind # "timeout" /\ \A j \in 1..(i - 1) : script[j].kind = "timeout")
                 => /\ llm.sent = i
                    /\ Failure(script[i]) => IsEmptyResult(llm)
        /\ (\A i \in 1..Len(script) : script[i].kind = "timeout")
              => llm.sent = 3 /\ IsEmptyResult(llm)

\* two timeouts, then a failure of another kind, after three requests
C16_Witness ==
    /\ Called
    /\ script[1].kind = "timeout"
    /\ script[2].kind = "timeout"
    /\ script[3].kind = "fail"
    /\ llm.sent = 3
    /\ IsEmptyResult(llm)

\* the first answer carries an error, no choices, or a content that does not
\* parse
Malformed(responses) ==
    /\ responses # NoScript
    /\ \/ responses[1].kind \in {"error", "nochoices"}
       \/ responses[1].kind = "content" /\ Failure(responses[1])

\* the step is the summarizer call of the iteration
SummarizeStep == pc = "summarize" /\ pc' # "summarize"

\* C17: an answer with a top-level error, without choices or with a content
\* that does not parse gives ("", []) after that one request, and the crawl
\* has marked the page visited and records the empty summary and tags
C17_MalformedAnswerEmptyResult ==
    [][(SummarizeStep /\ Malformed(script')) =>
          /\ llm' = EmptyResult(1)
          /\ pc' \in {"links", "sleep"}
          /\ cur.url \in visited_urls
          /\ IF dbFaults' = dbFaults
             THEN /\ rows'[cur.url].summary = <<>>
                  /\ rows'[cur.url].tags = <<>>
                  /\ rows'[cur.url].status = rows[cur.url].status
                  /\ \A u \in DOMAIN rows \ {cur.url} : rows'[u] = rows[u]
             ELSE rows' = rows
          /\ dbFaults' = 0 => rows'[cur.url].status = "visited"]_vars

\* the endpoint answered without choices; the page is visited with an empty
\* summary
C17_Witness ==
    /\ Malformed(script)
    /\ script[1].kind = "nochoices"
    /\ llm = EmptyResult(1)
    /\ rows[cur.url].status = "visited"
    /\ rows[cur.url].summary = <<>>

\* the rows the interrupted run left with a terminal status
TerminalEarlier == {u \in DOMAIN earlier : earlier[u].status \in Terminal}

\* C18: in a run of crawl() started on the store of an interrupted run, seeding
\* the base url changes no row when the table holds it, get_next_url returns
\* only rows still marked to_visit, the url sent a GET had no terminal status
\* in the store, and every row that had one stays as it was left
C18_RestartResumes ==
    [][restarts > 0 =>
          /\ (pc = "start" /\ pc' = "dequeue" /\ base_url \in DOMAIN rows) =>
                rows' = rows /\ downloads' = downloads
          /\ (pc = "dequeue" /\ pc' = "policy") =>
                /\ rows[cur'.url].status = "to_visit"
                /\ cur'.url \notin TerminalEarlier
          /\ pc = "fetch" => cur.url \notin TerminalEarlier
          /\ \A u \in TerminalEarlier :
                u \in DOMAIN rows' /\ rows'[u] = earlier[u]]_vars

\* the second run fetches a url the first run left to_visit, in a store that
\* holds the seed and a row with a terminal status
C18_Witness ==
    /\ restarts > 0
    /\ pc = "summarize"
    /\ base_url \in DOMAIN earlier
    /\ TerminalEarlier # {}
    /\ cur.url \in DOMAIN earlier
    /\ earlier[cur.url].status = "to_visit"
    /\ rows[cur.url].status = "visited"

\* the step made a storage call that met a storage error
FaultStep == dbFaults' > dbFaults

\* C19: insert_url, update_url_status, update_page_info and get_next_url
\* raise nothing when they meet a storage error and change no row;
\* get_next_url then returns (None, None), on which crawl() leaves its loop
C19_StorageErrorNoEffect ==
    [][FaultStep =>
          /\ rows' = rows
          /\ pc' # "raised"
          /\ pc = "dequeue" => pc' = "done" /\ cur' = cur]_vars

\* get_next_url met a storage error while a row was waiting: the loop ended
\* and the row is still to_visit
C19_Witness ==
    /\ pc = "done"
    /\ dbFaults > 0
    /\ get_next_url(rows, max_depth) # {}

\* the url matches one of the exclude-url patterns in force for (url, depth)
MatchesExcludePattern(url, depth) ==
    LET patterns == merge_settings(url, depth)["exclude_url_patterns"]
    IN  \E i \in 1..Len(patterns) : Contains(url, patterns[i])

\* the positions of crawl() from the GET on
PastPolicy == {"fetch", "summarize", "links", "sleep", "raised"}

\* C21: a url returned by get_next_url that matches an exclude-url pattern of
\* merge_settings(url, depth) has update_url_status(url, "ignored") called for
\* it, which ends the iteration; it is never sent a GET or summarized, and
\* the robots parser is never asked about it
C21_ExcludedIgnored ==
    /\ [](pc \in PastPolicy => ~MatchesExcludePattern(cur.url, cur.depth))
    /\ [](\A u \in consulted : ~MatchesExcludePattern(u, rows[u].depth))
    /\ [][(pc = "policy" /\ MatchesExcludePattern(cur.url, cur.depth)) =>
             /\ pc' = "dequeue"
             /\ consulted' = consulted
             /\ visited_urls' = visited_urls
             /\ IF dbFaults' = dbFaults
                THEN /\ rows'[cur.url].status = "ignored"
                     /\ rows'[cur.url].content_type = Null
                     /\ \A u \in DOMAIN rows \ {cur.url} : rows'[u] = rows[u]
                ELSE rows' = rows]_vars

\* under the override of depth 1, /p2 was returned, matched the pattern in
\* force at its depth and is ignored, without a question to the robots parser
C21_Witness ==
    /\ pc = "dequeue"
    /\ \E u \in dequeued :
          /\ MatchesExcludePattern(u, rows[u].depth)
          /\ ~ \E i \in 1..Len(config.exclude_url_patterns) :
                 Contains(u, config.exclude_url_patterns[i])
          /\ rows[u].status = "ignored"
          /\ rows[u].content_type = Null
          /\ u \notin consulted
          /\ u \notin visited_urls

\* the iteration reaches the robots test: neither excluded nor binary
ReachesRobotsTest ==
    /\ pc = "policy"
    /\ ~MatchesExcludePattern(cur.url, cur.depth)
    /\ ~is_binary_url(cur.url)

\* C22: with respect_robots set, a url returned by get_next_url that the
\* robots policy disallows has update_url_status(url, "ignored") called for it
\* and is never sent a GET; with respect_robots unset the parser is never
\* asked and every url that reaches the test goes on to its GET
C22_RobotsCompliance ==
    /\ [](respect_robots => (pc \in PastPolicy => can_fetch(cur.url)))
    /\ [](~respect_robots => consulted = {})
    /\ [][ReachesRobotsTest =>
             IF respect_robots /\ ~can_fetch(cur.url)
             THEN /\ pc' = "dequeue"
                  /\ cur.url \in consulted'
                  /\ visited_urls' = visited_urls
                  /\ IF dbFaults' = dbFaults
                     THEN /\ rows'[cur.url].status = "ignored"
                          /\ \A u \in DOMAIN rows \ {cur.url} : rows'[u] = rows[u]
                     ELSE rows' = rows
             ELSE /\ pc' = "fetch"
                  /\ cur' = cur
                  /\ rows' = rows]_vars

\* with respect_robots set, /p2 was returned, the parser disallowed it and
\* the row is ignored without a GET
C22_Witness ==
    /\ respect_robots
    /\ pc = "dequeue"
    /\ \E u \in consulted :
          /\ ~can_fetch(u)
          /\ rows[u].status = "ignored"
          /\ rows[u].content_type = Null
          /\ u \notin visited_urls

\* the step is a page GET that raised
GetRaised == pc = "fetch" /\ gets'.last = "raised"

\* C23 (amended): a page GET that raises has update_url_status(url, "ignored")
\* called and ends the iteration: the url is not in visited_urls and no row
\* is inserted; unless the write meets a storage error the row is ignored
\* from then on. A url is sent a second GET only after a storage error.
C23_FailedGetIgnored ==
    [][pc = "fetch" =>
          /\ gets'.sent = gets.sent \cup {cur.url}
          /\ cur.url \in gets.sent => dbFaults > 0
          /\ GetRaised =>
                /\ pc' = "dequeue"
                /\ visited_urls' = visited_urls
                /\ dbFaults = 0 => cur.url \notin visited_urls
                /\ IF dbFaults' = dbFaults
                   THEN /\ rows'[cur.url].status = "ignored"
                        /\ rows'[cur.url].content_type = Null
                        /\ \A u \in DOMAIN rows \ {cur.url} : rows'[u] = rows[u]
                   ELSE rows' = rows]_vars

\* the GET of a page other than the seed raised; its row is ignored and the
\* loop is back at get_next_url
C23_Witness ==
    /\ pc = "dequeue"
    /\ dbFaults = 0
    /\ gets.last = "raised"
    /\ \E u \in gets.sent :
          /\ u # base_url
          /\ rows[u].status = "ignored"
          /\ rows[u].content_type = Null
          /\ can_fetch(u)
          /\ u \notin visited_urls

\* C23 as stated: no url is sent a second page GET, and a url whose GET
\* raised is not in visited_urls (with one GET per url, that is decided when
\* its GET raises)
C23_OneGetPerUrl ==
    [][pc = "fetch" =>
          /\ cur.url \notin gets.sent
          /\ GetRaised => cur.url \notin visited_urls']_vars

\* the media type a Content-Type header declares: what stands before the
\* first ";", blanks aside; "" for a response without the header
DeclaredType(header) ==
    LET semis == {i \in 1..Len(header) : header[i] = ";"}
        stop == IF semis = {} THEN Len(header) + 1
                ELSE CHOOSE i \in semis : \A j \in semis : i <= j
        toks == {i \in 1..(stop - 1) : header[i] \notin Blank}
    IN  IF toks = {} THEN ""
        ELSE header[CHOOSE i \in toks : \A j \in toks : i <= j]

\* the step is a page GET that returned a response
GetAnswered == pc = "fetch" /\ gets'.last = "response"

\* C24: a response whose declared media type is not accepted has
\* update_url_status(url, "ignored", <that type>) called and ends the
\* iteration: the url is not added to visited_urls, no summary is asked for
\* and no row is inserted; a response of an accepted type is marked visited
C24_UnsupportedTypeIgnored ==
    [][GetAnswered =>
          LET observed == DeclaredType(gets'.header)
          IN  IF observed \notin accepted_content_types
              THEN /\ pc' = "dequeue"
                   /\ visited_urls' = visited_urls
                   /\ llm' = NoLlmCall
                   /\ IF dbFaults' = dbFaults
                      THEN /\ rows'[cur.url].status = "ignored"
                           /\ rows'[cur.url].content_type = observed
                           /\ \A u \in DOMAIN rows \ {cur.url} : rows'[u] = rows[u]
                      ELSE rows' = rows
              ELSE /\ pc' \in {"summarize", "sleep"}
                   /\ cur.url \in visited_urls'
                   /\ ctype' = observed]_vars

\* a page answered with Content-Type application/pdf; q=1: its row is ignored
\* with content_type application/pdf
C24_Witness ==
    /\ pc = "dequeue"
    /\ gets.last = "response"
    /\ gets.header = <<"application/pdf", ";", " ", "q=1">>
    /\ \E u \in gets.sent :
          /\ rows[u].status = "ignored"
          /\ rows[u].content_type = "application/pdf"
          /\ u \notin visited_urls

\* the urls whose row has status visited
VisitedRows == {u \in DOMAIN rows : rows[u].status = "visited"}

\* the loop is at its head, or crawl() has returned visited_urls
LoopBoundary == pc \in {"dequeue", "done"}

\* C25 (amended): in a crawl started on an empty table every url whose row
\* is visited is in visited_urls, and while no storage error was met
\* visited_urls is, at every loop boundary and at return, exactly the set of
\* urls whose row is visited
C25_VisitedSetMatchesRows ==
    /\ VisitedRows \subseteq visited_urls
    /\ (LoopBoundary /\ dbFaults = 0) => visited_urls = VisitedRows

\* crawl() returned two urls while a third row is ignored
C25_Witness ==
    /\ pc = "done"
    /\ dbFaults = 0
    /\ Cardinality(visited_urls) = 2
    /\ visited_urls = VisitedRows
    /\ \E u \in DOMAIN rows : rows[u].status = "ignored"

\* C25 as stated: at every loop boundary and at return visited_urls is
\* exactly the set of urls whose row is visited
C25_VisitedSetIsVisitedRows == LoopBoundary => visited_urls = VisitedRows

\* C26: an instance whose health probe fails otherwise than by HTTP 429 gets
\* a cooldown of 24 hours and is not sent the real query in that pass
C26_ProbeFailureCooldown ==
    [][ProbeStep("fail") =>
          LET u == last'.record
          IN  /\ instances'[u].sleep_until = now + failure_sleep
              /\ sPc' = "loop"
              /\ idx' = idx + 1
              /\ result' = result]_vars

\* C27: a real query that fails otherwise than by HTTP 429 changes no
\* sleep_until and no priority, and search goes on with the next record of
\* the same pass
C27_QueryFailureNoCooldown ==
    [][QueryStep("fail") =>
          /\ instances' = instances
          /\ sPc' = "loop"
          /\ idx' = idx + 1
          /\ attempt' = attempt
          /\ listed' = listed
          /\ result' = result]_vars

\* the query of the first listed instance failed; search stands at the second
\* record of the same pass and the cooldowns are as they were
C27_Witness ==
    /\ sPc = "loop"
    /\ last.req = "query"
    /\ last.answer = "fail"
    /\ Len(listed) >= 2
    /\ idx = 2
    /\ last.record = listed[1]
    /\ instances[last.record].sleep_until = NoneNum

\* the uptime of an instance, 0 when it is unknown
KnownUptime(u) == IF instances[u].uptime = NoneNum THEN 0 ELSE instances[u].uptime

\* the step is update_instances at the head of a pass, with no storage error
RefreshStep == sPc = "pass" /\ sPc' = "loop" /\ dbFaults' = dbFaults

\* C28: update_all_priorities sets the priority of every instance to 100
\* minus its uptime (0 when unknown) and changes no sleep_until; the list
\* loaded after it, which search walks in order, is in descending uptime
\* whatever priorities were stored before
C28_RefreshPriorities ==
    /\ [](sPc \in {"loop", "query"} =>
             /\ Len(probed) <= Len(listed)
             /\ probed = SubSeq(listed, 1, Len(probed)))
    /\ [][RefreshStep =>
             /\ DOMAIN instances' = DOMAIN instances
             /\ \A u \in DOMAIN instances :
                   /\ instances'[u].priority = 100 - KnownUptime(u)
                   /\ instances'[u].sleep_until = instances[u].sleep_until
                   /\ instances'[u].uptime = instances[u].uptime
             /\ \A i, j \in 1..Len(listed') :
                   i < j => KnownUptime(listed'[i]) >= KnownUptime(listed'[j])]_vars

\* the three instances are listed after a refresh, the one of uptime 90
\* first with priority 10 and the one of unknown uptime last with priority 100
C28_Witness ==
    /\ sPc = "loop"
    /\ Len(listed) = 3
    /\ instances[listed[3]].uptime = NoneNum
    /\ instances[listed[3]].priority = 100
    /\ instances[listed[1]].priority = 10
    /\ Len(probed) = 2


----------------------------------------------------------------------------
(* Rows beyond max_depth *)

\* the rows whose depth exceeds max_depth
BeyondMaxDepth == {u \in DOMAIN rows : rows[u].depth > max_depth}

\* C30: a row whose depth exceeds max_depth is stored but never returned by
\* get_next_url: it keeps the status to_visit for the whole run, is never the
\* current url, is sent no GET and is not in the visited set
C30_BeyondMaxDepthNeverDequeued ==
    \A u \in BeyondMaxDepth :
        /\ rows[u].status = "to_visit"
        /\ rows[u].content_type = Null
        /\ u \notin dequeued
        /\ u \notin gets.sent
        /\ u \notin visited_urls
        /\ pc \notin {"start", "dequeue", "done"} => cur.url # u

\* the run is over, a page of depth max_depth was visited and a link of it is
\* stored one level deeper, still to_visit
C30_Witness ==
    /\ pc = "done"
    /\ \E u \in BeyondMaxDepth : rows[u].status = "to_visit"
    /\ \E v \in visited_urls : rows[v].depth = max_depth /\ rows[v].status = "visited"
    /\ \A v \in DOMAIN rows : rows[v].depth <= max_depth => rows[v].status # "to_visit"


----------------------------------------------------------------------------
(* merge_settings overwrites key by key *)

\* the layers of the last merge, in the order they are applied
Layers ==
    << [k \in SettingKeys |-> config[k]],
       DictGet(config.depth_settings, mDepth),
       scoped >>

\* the latest layer that sets the key
LatestLayer(k) ==
    CHOOSE i \in 1..3 :
        /\ k \in DOMAIN Layers[i]
        /\ \A j \in (i + 1)..3 : k \notin DOMAIN Layers[j]

\* C29: the merge is a shallow overwrite key by key: every key has the value
\* of the latest layer that sets it, taken as a whole (a list is the list of
\* that layer, with nothing of the earlier layers in it), and when neither a
\* depth entry nor a url entry applies the result is the global settings
C29_ShallowOverwrite ==
    Merged =>
        /\ DOMAIN effective = UNION {DOMAIN Layers[i] : i \in 1..3}
        /\ \A k \in DOMAIN effective : effective[k] = Layers[LatestLayer(k)][k]
        /\ \A k \in ListKeys :
              Len(effective[k]) = Len(Layers[LatestLayer(k)][k])
        /\ (Layers[2] = EmptyDict /\ Layers[3] = EmptyDict) => effective = Layers[1]

\* the depth entry replaces the non-empty global list of patterns by its own
\* two patterns, the url entry sets another key, and a third key is the
\* global one
C29_Witness ==
    /\ Merged
    /\ Layers[1]["exclude_url_patterns"] # <<>>
    /\ "exclude_url_patterns" \in DOMAIN Layers[2]
    /\ "exclude_url_patterns" \notin DOMAIN Layers[3]
    /\ effective["exclude_url_patterns"] = << <<"old">>, <<"tmp">> >>
    /\ Layers[3] # EmptyDict
    /\ LatestLayer("download_binaries") = 1
    /\ effective["download_binaries"] = config.download_binaries


----------------------------------------------------------------------------
(* Termination of the crawl loop *)

\* crawl() has left its loop: it returned, or an exception ended it
Ended == pc \in {"done", "raised"}

\* C31: the crawl of a finite site ends, also when it is resumed on a table
\* that holds to_visit rows of an earlier run: the loop eventually meets a
\* get_next_url that returns nothing
C31_CrawlEnds == <>Ended


----------------------------------------------------------------------------
(* The delay between requests *)

\* C32: two consecutive page GETs are separated by one delay: when the crawl
\* is about to send a GET and has sent one before, time.sleep(self.delay) ran
\* since that GET, whatever its outcome
C32_DelayBetweenGets == (pc = "fetch" /\ gets.sent # {}) => gets.slept


----------------------------------------------------------------------------
(* The extension of a binary url *)

\* the configured extensions the url ends in: those that make is_binary_url
\* answer True
ClassifyingExtensions(url) ==
    { binary_extensions[i] : i \in
        {j \in 1..Len(binary_extensions) : EndsWith(Lower(url), binary_extensions[j])} }

\* the extension is in the list
Listed(e, list) == \E i \in 1..Len(list) : list[i] = e

\* C33: the extension that makes a url binary is the one looked up in the
\* allow-list: add_url downloads every url, not excluded, that ends in a
\* configured extension found in the effective download_specific_binaries
C33_ClassifyingExtensionLookedUp ==
    [][(mUrl' # <<>> /\ ~should_exclude_url(mUrl', effective'["exclude_url_patterns"])) =>
          \A e \in ClassifyingExtensions(mUrl') :
              Listed(e, effective'["download_specific_binaries"])
                  => mUrl' \in downloads']_vars


----------------------------------------------------------------------------
(* Two crawl loops on one store *)

\* the step is the page GET of the running loop
GetStep == pc = "fetch" /\ pc' # "fetch" /\ peer' = peer

\* the step is get_next_url of the running loop
DequeueStep == pc = "dequeue" /\ pc' # "dequeue" /\ peer' = peer

\* C34: get_next_url changes no row, so that two loops on one store can both
\* dequeue and fetch the same url; one loop by itself sends a second GET for
\* a url only after a status write met a storage error
C34_OwnGetNotRepeated ==
    [][/\ DequeueStep => rows' = rows
       /\ GetStep => (cur.url \in gets.sent => dbFaults > 0)]_vars

\* both loops have dequeued the same page and sent its GET, with no storage
\* error anywhere
C34_Witness ==
    /\ dbFaults = 0
    /\ \E u \in gets.sent \cap peer.locals.gets.sent :
          /\ u \in dequeued \cap peer.locals.dequeued
          /\ rows[u].status \in Terminal

\* C34 as stated: one loop by itself never sends a second GET for a url
C34_SingleLoopNeverRepeats ==
    [][GetStep => cur.url \notin gets.sent]_vars


----------------------------------------------------------------------------
(* Interrupting the crawl *)

\* the step interrupts crawl() and calls it again
RestartStep == restarts' = restarts + 1

\* the response of the page in hand was received and its anchors were not,
\* or not all, passed to add_url
AnchorsPending == pc = "summarize" \/ (pc = "links" /\ nlinks < MaxLinks)

\* C35: interrupting the crawl loses no link: whenever crawl() is interrupted
\* while anchors of the page in hand are still to be enqueued, the row of that
\* page is still to_visit, so that the restarted crawl processes the page again
C35_InterruptLosesNoLink ==
    [][(RestartStep /\ AnchorsPending /\ cur.url \in DOMAIN rows)
          => rows[cur.url].status = "to_visit"]_vars


----------------------------------------------------------------------------
(* Breadth-first order *)

----------------------------------------------------------------------------
(* The deepest rows *)

\* C37: in a run started on an empty table no row is deeper than
\* max_depth + 1, and the url in hand is no deeper than max_depth
C37_DepthAtMostOneBeyond ==
    /\ \A u \in DOMAIN rows : rows[u].depth <= max_depth + 1
    /\ pc \in {"policy", "fetch", "summarize", "links", "sleep"} => cur.depth <= max_depth

\* the page in hand has depth max_depth and its anchor has just been stored
\* at depth max_depth + 1
C37_Witness ==
    /\ pc = "links"
    /\ cur.depth = max_depth
    /\ nlinks > 0
    /\ urljoin(cur.url, href) \in DOMAIN rows
    /\ rows[urljoin(cur.url, href)].depth = max_depth + 1


----------------------------------------------------------------------------
(* What add_url refuses *)

\* add_url(url, depth) returns before insert_url
Refused(url, depth) ==
    \/ is_binary_url(url)
    \/ should_exclude_url(url, merge_settings(url, depth)["exclude_url_patterns"])

\* C38: in a run started on an empty table no row holds a url that is binary
\* or excluded at the depth stored with it; a seed that is binary or excluded
\* gets no row, and the crawl then visits nothing and sends no GET
C38_NoRowForRefusedUrl ==
    /\ \A u \in DOMAIN rows : ~Refused(u, rows[u].depth)
    /\ Refused(base_url, 0) =>
          /\ DOMAIN rows = {}
          /\ visited_urls = {}
          /\ gets.sent = {}
          /\ pc \in {"start", "dequeue", "done"}

\* the crawl of a binary seed has returned, with an empty table
C38_Witness ==
    /\ pc = "done"
    /\ is_binary_url(base_url)
    /\ DOMAIN rows = {}
    /\ visited_urls = {}
    /\ dbFaults = 0


----------------------------------------------------------------------------
(* Where the cooldown writes land *)

\* the step sent a request to an instance: a health probe or a real query
RequestStep ==
    /\ \/ Len(probed') = Len(probed) + 1
       \/ sPc = "query" /\ sPc' # "query"
    /\ dbFaults' = dbFaults

\* C39: a health probe or real query changes the row of no instance but the
\* one it was sent to, whatever the stored form of its url, and after a failed
\* probe the sleep_until of the probed instance is set, in the future
C39_CooldownOnProbedRow ==
    [][RequestStep =>
          LET u == last'.record
          IN  /\ \A v \in DOMAIN instances \ {u} : instances'[v] = instances[v]
              /\ (last'.req = "probe" /\ last'.answer # "ok") =>
                    instances'[u].sleep_until > now]_vars


----------------------------------------------------------------------------
(* The columns of a row and its status *)

\* the row of u holds a summary or tags
HasPageInfo(u) == rows[u].summary # NullText \/ rows[u].tags # NullText

\* C40 (amended): in a run started on an empty table a visited row has an
\* accepted content_type and a to_visit row has none; a row holds a summary
\* or tags only if its page was fetched with an accepted HTML content type
\* in this run, and, as long as no storage call met an error, only if it is
\* visited with an HTML content_type
C40_ColumnsFollowStatus ==
    \A u \in DOMAIN rows :
        /\ rows[u].status = "visited" =>
              rows[u].content_type \in accepted_content_types
        /\ rows[u].status = "to_visit" => rows[u].content_type = Null
        /\ HasPageInfo(u) => u \in visited_urls
        /\ (HasPageInfo(u) /\ dbFaults = 0) =>
              /\ rows[u].status = "visited"
              /\ IsHtml(rows[u].content_type)

\* a page of depth 1 is visited as HTML with a summary, another row is still
\* to_visit, with no storage error so far
C40_Witness ==
    /\ dbFaults = 0
    /\ \E u \in DOMAIN rows :
          /\ rows[u].depth = 1
          /\ rows[u].status = "visited"
          /\ IsHtml(rows[u].content_type)
          /\ rows[u].summary # NullText
    /\ \E v \in DOMAIN rows :
          /\ rows[v].status = "to_visit"
          /\ ~HasPageInfo(v)

\* C40 as stated: a visited row has an accepted content_type, a row holds a
\* summary or tags only if it is visited with an HTML content_type, and a
\* to_visit row has neither content_type nor summary nor tags
C40_ColumnsFollowStatusAlways ==
    \A u \in DOMAIN rows :
        /\ rows[u].status = "visited" =>
              rows[u].content_type \in accepted_content_types
        /\ HasPageInfo(u) =>
              /\ rows[u].status = "visited"
              /\ IsHtml(rows[u].content_type)
        /\ rows[u].status = "to_visit" =>
              /\ rows[u].content_type = Null
              /\ ~HasPageInfo(u)

=============================================================================
